---- MODULE Spec2Model ----
(***************************************************************************)
(* State-machine model of the market-data store's core: the per-instrument *)
(* buffer set with its private ring (src3), the sequence-gated ring        *)
(* (src5), the zero-copy ring with streaming stores (src2) and the         *)
(* instrument directory (src2).  Each component has its own variables and  *)
(* its own specification; a specification leaves the other components'    *)
(* variables at their initial values.                                      *)
(***************************************************************************)
EXTENDS Integers, Sequences, FiniteSets, TLC

(***************************************************************************)
(* Bounds of the model.                                                    *)
(***************************************************************************)
\* Largest sequence number a feed offers to a buffer set.
MaxSeq == 3
\* Ring sizes given in InstrumentBufferConfig (l1/l2/ref_buffer_size).
L1Size == 3
L2Size == 2
RefSize == 2

(***************************************************************************)
(* Values shared by the components.                                        *)
(***************************************************************************)
\* BufferType (src3/core/config.rs)
BufferType == {"L1Price", "L2Trade", "Reference"}

\* Content of memory that no write has initialised (Vec::set_len / MaybeUninit).
Uninit == -1

\* Option::None and Option::Some(x); also the result of a call that has not returned
None == {}

Some(x) == {x}

\* is `s` a prefix of `t`
IsPrefix(s, t) ==
    /\ Len(s) <= Len(t)
    /\ \A i \in 1..Len(s) : s[i] = t[i]

(***************************************************************************)
(* State of the components.                                                *)
(***************************************************************************)
\* src3: InstrumentBuffer with its three private RingBuffers
VARIABLES
    ib_config,         \* InstrumentBufferConfig: BufferType -> ring size
    ib_data,           \* RingBuffer.data of each ring: BufferType -> [slot -> record parts]
    ib_write_pos,      \* RingBuffer.write_pos of each ring
    ib_read_pos,       \* RingBuffer.read_pos of each ring
    ib_last_sequence,  \* InstrumentBuffer.last_sequence
    ib_prod,           \* the feed threads inside InstrumentBuffer::write: thread -> locals
    ib_cons,           \* the strategy thread inside InstrumentBuffer::read: locals
    ib_written,        \* history: <<buffer_type, record>> of every RingBuffer::write that returned true
    ib_consumed,       \* history: BufferType -> records returned by successful reads
    ib_full_rej        \* history: the last write rejected because its ring was full

\* src5: ZeroAllocRingBuffer with its own sequence gate
VARIABLES
    za_capacity,       \* ZeroAllocRingBuffer.capacity
    za_data,           \* ZeroAllocRingBuffer.data: slot -> record parts
    za_write_pos,      \* ZeroAllocRingBuffer.write_pos
    za_read_pos,       \* ZeroAllocRingBuffer.read_pos
    za_last_sequence,  \* ZeroAllocRingBuffer.last_sequence
    za_prod,           \* the producer thread inside write: locals
    za_cons,           \* the consumer thread inside read: locals
    za_obs,            \* a thread inside len(): locals
    za_written,        \* history: records whose write stored write_pos
    za_consumed,       \* history: records returned by successful reads
    za_run,            \* history: only valid records with increasing sequence numbers
                       \* have been offered, and no read has begun
    za_full_rej,       \* history: the last write rejected because the ring was full
    za_heap,           \* the heap blocks the ring owns (the boxed slot array)
    za_stats           \* RecordStats: the counters of the src5 crate

\* src2: ZeroAllocRingBuffer with streaming stores, read through InstrumentBuffer::read
VARIABLES
    zb_capacity,       \* ZeroAllocRingBuffer.capacity
    zb_avx2,           \* is_x86_feature_detected!("avx2") on an x86_64 build
    zb_buffer,         \* ZeroAllocRingBuffer.buffer: slot -> record parts
    zb_before,         \* what each slot part held before the last store to it
    zb_write_idx,      \* ZeroAllocRingBuffer.write_idx
    zb_read_idx,       \* ZeroAllocRingBuffer.read_idx
    zb_prod,           \* the producer thread inside write: locals
    zb_cons,           \* the consumer thread inside InstrumentBuffer::read: locals
    zb_written,        \* history: records whose write returned true
    zb_consumed        \* history: records returned by successful reads

\* src2: InstrumentIndex
VARIABLES
    ii_capacity,       \* InstrumentIndex.capacity
    ii_index,          \* InstrumentIndex.index: slot -> token
    ii_token_map,      \* InstrumentIndex.token_map: the pairs <<token, slot>>
    ii_count,          \* InstrumentIndex.count
    ii_lock,           \* the RwLock of token_map: its writer and its readers
    ii_thread,         \* the threads inside register_instrument / get_buffer_index: locals
    ii_assigned,       \* history: token -> slot returned by its first registration
    ii_done            \* history: tokens whose registration has returned a slot

\* src3: InstrumentBufferManager
VARIABLES
    mg_index,          \* InstrumentBufferManager.index: the directory [index, token_map, count, capacity]
    mg_buffers,        \* InstrumentBufferManager.buffers: slot -> Option of a buffer set
    mg_created,        \* history: number of buffer sets constructed so far
    mg_last,           \* the last manager call: its operation, its token and what it returned
    mg_panicked,       \* a manager call has panicked (the process is gone)
    mg_placed          \* history: the accepted writes, each with its token and buffer type

ibVars == <<ib_config, ib_data, ib_write_pos, ib_read_pos, ib_last_sequence,
            ib_prod, ib_cons, ib_written, ib_consumed, ib_full_rej>>

zaVars == <<za_capacity, za_data, za_write_pos, za_read_pos, za_last_sequence,
            za_prod, za_cons, za_obs, za_written, za_consumed, za_run, za_full_rej,
            za_heap, za_stats>>

zbVars == <<zb_capacity, zb_avx2, zb_buffer, zb_before, zb_write_idx, zb_read_idx,
            zb_prod, zb_cons, zb_written, zb_consumed>>

iiVars == <<ii_capacity, ii_index, ii_token_map, ii_count, ii_lock, ii_thread,
            ii_assigned, ii_done>>

mgVars == <<mg_index, mg_buffers, mg_created, mg_last, mg_panicked, mg_placed>>

\* src2: UltraLowLatencyDB, one ring shared by writer and reader threads
VARIABLES
    db_avx2,        \* whether is_x86_feature_detected!("avx2") holds on the build
    db_buffer,      \* ring.buffer: slot -> record
    db_write_idx,   \* ring.write_idx
    db_read_idx,    \* ring.read_idx
    db_writer,      \* writer thread -> its position inside db.write
    db_reader,      \* reader thread -> its position inside db.read
    db_written,     \* records whose write returned true, in order of return
    db_returned     \* records returned by a read, in order of return

dbVars == <<db_avx2, db_buffer, db_write_idx, db_read_idx, db_writer, db_reader,
            db_written, db_returned>>

\* the record structs, laid out field by field as repr(C, align(64)) does
VARIABLES
    ly_next,        \* struct -> number of fields placed so far
    ly_end,         \* struct -> offset of the first byte behind the fields placed
    ly_size         \* struct -> None, or Some(size_of) once the struct is closed

lyVars == <<ly_next, ly_end, ly_size>>

\* src: engine Database, a RingBuffer per symbol
VARIABLES
    en_avx2,        \* whether is_x86_feature_detected!("avx2") holds on the build
    en_capacity,    \* config.buffer_capacity
    en_buffers,     \* buffers: symbol -> None, or Some(ring) once the entry exists
    en_next_id,     \* next_id
    en_latest,      \* symbol -> None, or Some(record of the last write that returned true)
    en_held,        \* symbol -> writes that returned true minus reads that returned a record
    en_last         \* the last call and what it returned

enVars == <<en_avx2, en_capacity, en_buffers, en_next_id, en_latest, en_held, en_last>>

\* src3 tests: the producer loop of test_instrument_buffer_system, on the ib_ buffer set
VARIABLES
    ft_first,       \* the number the producer gives its first record
    ft_sequence     \* the producer's local `sequence`: the number of the record it offers

ftVars == <<ft_first, ft_sequence>>

\* src: storage Table, one LowLatencyMpmcRing per field
VARIABLES
    tb_rings,        \* field_buffers: field -> the items its ring holds, oldest first
    tb_record_count, \* record_count
    tb_next_tag,     \* history: the number the next write_record_ref call is known by
    tb_writer,       \* writer thread -> its position inside write_record_ref
    tb_reader        \* reader thread -> its position inside read_record_ref

tbVars == <<tb_rings, tb_record_count, tb_next_tag, tb_writer, tb_reader>>

\* src: LowLatencyMpmcRing, step by step.  mp_sequence and mp_value are the
\* sequence number and the value of every slot (None: no value, or moved out);
\* mp_prod and mp_cons are the calls in progress of the producer and consumer
\* threads; mp_accepted, mp_returned and mp_overwritten record what happened to
\* the items: enqueued with true, how many times dequeued, written over
\* before they were taken.
VARIABLES mp_capacity, mp_sequence, mp_value, mp_producer_index,
          mp_consumer_index, mp_prod, mp_cons, mp_next_item, mp_accepted,
          mp_returned, mp_overwritten

mpVars == <<mp_capacity, mp_sequence, mp_value, mp_producer_index, mp_consumer_index, mp_prod, mp_cons, mp_next_item, mp_accepted, mp_returned, mp_overwritten>>

\* src2: InstrumentBufferManager and the directory handle its index() gives
\* out.  hd_index is the directory, hd_buffers the manager's slots (None or a
\* buffer set), hd_last the last call and what it returned, hd_direct the
\* tokens registered on the handle and not through the manager, hd_writes the
\* number of write calls made.
VARIABLES hd_avx2, hd_index, hd_buffers, hd_last, hd_panicked, hd_direct,
          hd_writes

hdVars == <<hd_avx2, hd_index, hd_buffers, hd_last, hd_panicked, hd_direct, hd_writes>>

\* src4/store: GlobalMarketData over the src3 manager.  gm_index and
\* gm_buffers are the manager's directory and slots, gm_stats the counters,
\* gm_queue the background queue, gm_last the last call and its result,
\* gm_processed the token and last price of the messages handed in.
VARIABLES gm_index, gm_buffers, gm_stats, gm_queue, gm_last, gm_processed,
          gm_panicked

gmVars == <<gm_index, gm_buffers, gm_stats, gm_queue, gm_last, gm_processed, gm_panicked>>

\* src4/src/store: GlobalMarketData with its background task.  bg_latest is
\* the DashMap of latest records, bg_queue the background queue, bg_task the
\* position of the spawned task and bg_msg the message it holds, bg_stored
\* the messages handed to the time-series store, bg_next the number of the
\* next feed message.
VARIABLES bg_latest, bg_queue, bg_stats, bg_task, bg_msg, bg_stored, bg_next

bgVars == <<bg_latest, bg_queue, bg_stats, bg_task, bg_msg, bg_stored, bg_next>>

vars == <<ibVars, zaVars, zbVars, iiVars, mgVars, dbVars, lyVars, enVars, ftVars, tbVars, mpVars, hdVars, gmVars, bgVars>>

\* what the actions of one component leave alone
ibOthers == <<zaVars, zbVars, iiVars, mgVars, dbVars, lyVars, enVars, ftVars, tbVars, mpVars, hdVars, gmVars, bgVars>>
zaOthers == <<ibVars, zbVars, iiVars, mgVars, dbVars, lyVars, enVars, ftVars, tbVars, mpVars, hdVars, gmVars, bgVars>>
zbOthers == <<ibVars, zaVars, iiVars, mgVars, dbVars, lyVars, enVars, ftVars, tbVars, mpVars, hdVars, gmVars, bgVars>>
iiOthers == <<ibVars, zaVars, zbVars, mgVars, dbVars, lyVars, enVars, ftVars, tbVars, mpVars, hdVars, gmVars, bgVars>>
mgOthers == <<ibVars, zaVars, zbVars, iiVars, dbVars, lyVars, enVars, ftVars, tbVars, mpVars, hdVars, gmVars, bgVars>>
dbOthers == <<ibVars, zaVars, zbVars, iiVars, mgVars, lyVars, enVars, ftVars, tbVars, mpVars, hdVars, gmVars, bgVars>>
lyOthers == <<ibVars, zaVars, zbVars, iiVars, mgVars, dbVars, enVars, ftVars, tbVars, mpVars, hdVars, gmVars, bgVars>>
enOthers == <<ibVars, zaVars, zbVars, iiVars, mgVars, dbVars, lyVars, ftVars, tbVars, mpVars, hdVars, gmVars, bgVars>>
ftOthers == <<ibVars, zaVars, zbVars, iiVars, mgVars, dbVars, lyVars, enVars, tbVars, mpVars, hdVars, gmVars, bgVars>>
tbOthers == <<ibVars, zaVars, zbVars, iiVars, mgVars, dbVars, lyVars, enVars, ftVars, mpVars, hdVars, gmVars, bgVars>>
mpOthers == <<ibVars, zaVars, zbVars, iiVars, mgVars, dbVars, lyVars, enVars, ftVars, tbVars, hdVars, gmVars, bgVars>>
hdOthers == <<ibVars, zaVars, zbVars, iiVars, mgVars, dbVars, lyVars, enVars, ftVars, tbVars, mpVars, gmVars, bgVars>>
gmOthers == <<ibVars, zaVars, zbVars, iiVars, mgVars, dbVars, lyVars, enVars, ftVars, tbVars, mpVars, hdVars, bgVars>>
bgOthers == <<ibVars, zaVars, zbVars, iiVars, mgVars, dbVars, lyVars, enVars, ftVars, tbVars, mpVars, hdVars, gmVars>>

(***************************************************************************)
(* src3: InstrumentBuffer with its three private RingBuffers.              *)
(***************************************************************************)
\* MarketDataRecord (src3): the quote part (prices, sizes) and the part that
\* carries timestamp and sequence number; a record copy moves one after the other.
MarketDataRecord(sequence) ==
    [sequence_num |-> sequence, last_price |-> 100 + (sequence % 100)]

\* The records a feed offers: one per sequence number, priced as the feed
\* threads of the tests price them.
Records3 == {MarketDataRecord(s) : s \in 0..MaxSeq}

UninitSlot == [sequence_num |-> Uninit, last_price |-> Uninit]

\* (pos + 1) % self.capacity
NextPos(pos, capacity) == (pos + 1) % capacity

\* a full check that never finds the ring full
RingNeverFull(next_write, read_pos) == FALSE

\* next_write == self.read_pos.load(Acquire)
RingFull(next_write, read_pos) == next_write = read_pos

\* read_pos == self.write_pos.load(Acquire)
RingEmpty(read_pos, write_pos) == read_pos = write_pos

\* a gate that lets a replay of the last sequence number through
OutOfSequenceStrict(seq, last) == seq < last

\* a gate that stops only a replay of the last sequence number
OutOfSequenceReplayOnly(seq, last) == seq = last

\* record.get_sequence_num() <= self.last_sequence.load(Relaxed)
OutOfSequence(seq, last) == seq <= last

IdleProducer(kinds) ==
    [pc |-> "idle", kinds |-> kinds, record |-> UninitSlot, buffer_type |-> "none",
     write_pos |-> 0, ret |-> None]

IdleConsumer ==
    [pc |-> "idle", buffer_type |-> "none", read_pos |-> 0,
     record |-> UninitSlot, ret |-> None]

\* InstrumentBuffer::new with one feed thread writing all three rings
IbInit ==
    /\ ib_config = [k \in BufferType |->
                      CASE k = "L1Price" -> L1Size
                        [] k = "L2Trade" -> L2Size
                        [] OTHER -> RefSize]
    /\ ib_data = [k \in BufferType |-> [i \in 0..(ib_config[k] - 1) |-> UninitSlot]]
    /\ ib_write_pos = [k \in BufferType |-> 0]
    /\ ib_read_pos = [k \in BufferType |-> 0]
    /\ ib_last_sequence = 0
    /\ ib_prod = [p \in {"feed"} |-> IdleProducer(BufferType)]
    /\ ib_cons = IdleConsumer
    /\ ib_written = <<>>
    /\ ib_consumed = [k \in BufferType |-> <<>>]
    /\ ib_full_rej = None

\* InstrumentBuffer::write, entry: select the ring, then the sequence gate
IbWriteGate(p, record, buffer_type) ==
    /\ ib_prod[p].pc = "idle"
    /\ buffer_type \in ib_prod[p].kinds
    /\ IF OutOfSequence(record.sequence_num, ib_last_sequence)
       THEN ib_prod' = [ib_prod EXCEPT ![p].record = record,
                                       ![p].buffer_type = buffer_type,
                                       ![p].ret = Some(FALSE)]
       ELSE ib_prod' = [ib_prod EXCEPT ![p].pc = "ring",
                                       ![p].record = record,
                                       ![p].buffer_type = buffer_type,
                                       ![p].ret = None]
    /\ UNCHANGED <<ib_config, ib_data, ib_write_pos, ib_read_pos, ib_last_sequence,
                   ib_cons, ib_written, ib_consumed, ib_full_rej>>
    /\ UNCHANGED ibOthers

\* a write that advances last_sequence before it finds the ring full
IbRingCheckAdvancing(p) ==
    /\ ib_prod[p].pc = "ring"
    /\ LET k == ib_prod[p].buffer_type
           write_pos == ib_write_pos[k]
           next_write == (write_pos + 1) % ib_config[k]
       IN  IF next_write = ib_read_pos[k]
           THEN /\ ib_prod' = [ib_prod EXCEPT ![p].pc = "idle", ![p].ret = Some(FALSE)]
                /\ ib_full_rej' = Some([record |-> ib_prod[p].record, buffer_type |-> k,
                                        reads |-> Len(ib_consumed[k])])
                /\ ib_last_sequence' = ib_prod[p].record.sequence_num
           ELSE /\ ib_prod' = [ib_prod EXCEPT ![p].pc = "copy_quote",
                                              ![p].write_pos = write_pos]
                /\ UNCHANGED <<ib_full_rej, ib_last_sequence>>
    /\ UNCHANGED <<ib_config, ib_data, ib_write_pos, ib_read_pos,
                   ib_cons, ib_written, ib_consumed>>
    /\ UNCHANGED ibOthers

\* RingBuffer::write, lines 34-39: load the indices, return false when full
IbRingCheck(p) ==
    /\ ib_prod[p].pc = "ring"
    /\ LET k == ib_prod[p].buffer_type
           write_pos == ib_write_pos[k]
           next_write == NextPos(write_pos, ib_config[k])
       IN  IF RingFull(next_write, ib_read_pos[k])
           THEN /\ ib_prod' = [ib_prod EXCEPT ![p].pc = "idle", ![p].ret = Some(FALSE)]
                /\ ib_full_rej' = Some([record |-> ib_prod[p].record, buffer_type |-> k,
                                        reads |-> Len(ib_consumed[k])])
           ELSE /\ ib_prod' = [ib_prod EXCEPT ![p].pc = "copy_quote",
                                              ![p].write_pos = write_pos]
                /\ UNCHANGED ib_full_rej
    /\ UNCHANGED <<ib_config, ib_data, ib_write_pos, ib_read_pos, ib_last_sequence,
                   ib_cons, ib_written, ib_consumed>>
    /\ UNCHANGED ibOthers

\* RingBuffer::write, line 41: ptr::write, first part of the record
IbCopyQuote(p) ==
    /\ ib_prod[p].pc = "copy_quote"
    /\ LET k == ib_prod[p].buffer_type
           w == ib_prod[p].write_pos
       IN  ib_data' = [ib_data EXCEPT ![k][w].last_price = ib_prod[p].record.last_price]
    /\ ib_prod' = [ib_prod EXCEPT ![p].pc = "copy_seq"]
    /\ UNCHANGED <<ib_config, ib_write_pos, ib_read_pos, ib_last_sequence,
                   ib_cons, ib_written, ib_consumed, ib_full_rej>>
    /\ UNCHANGED ibOthers

\* RingBuffer::write, line 41: ptr::write, rest of the record
IbCopySeq(p) ==
    /\ ib_prod[p].pc = "copy_seq"
    /\ LET k == ib_prod[p].buffer_type
           w == ib_prod[p].write_pos
       IN  ib_data' = [ib_data EXCEPT ![k][w].sequence_num = ib_prod[p].record.sequence_num]
    /\ ib_prod' = [ib_prod EXCEPT ![p].pc = "publish"]
    /\ UNCHANGED <<ib_config, ib_write_pos, ib_read_pos, ib_last_sequence,
                   ib_cons, ib_written, ib_consumed, ib_full_rej>>
    /\ UNCHANGED ibOthers

\* RingBuffer::write, lines 42-43: release-store write_pos, return true
IbPublish(p) ==
    /\ ib_prod[p].pc = "publish"
    /\ LET k == ib_prod[p].buffer_type
       IN  /\ ib_write_pos' = [ib_write_pos EXCEPT ![k] =
                                 NextPos(ib_prod[p].write_pos, ib_config[k])]
           /\ ib_written' = Append(ib_written, <<k, ib_prod[p].record>>)
    /\ ib_prod' = [ib_prod EXCEPT ![p].pc = "set_seq"]
    /\ ib_full_rej' = None
    /\ UNCHANGED <<ib_config, ib_data, ib_read_pos, ib_last_sequence,
                   ib_cons, ib_consumed>>
    /\ UNCHANGED ibOthers

\* InstrumentBuffer::write, lines 94-96: store last_sequence, return true
IbSetSeq(p) ==
    /\ ib_prod[p].pc = "set_seq"
    /\ ib_last_sequence' = ib_prod[p].record.sequence_num
    /\ ib_prod' = [ib_prod EXCEPT ![p].pc = "idle", ![p].ret = Some(TRUE)]
    /\ UNCHANGED <<ib_config, ib_data, ib_write_pos, ib_read_pos,
                   ib_cons, ib_written, ib_consumed, ib_full_rej>>
    /\ UNCHANGED ibOthers

\* InstrumentBuffer::read and RingBuffer::read, lines 48-51: None when empty
IbReadCheck(buffer_type) ==
    /\ ib_cons.pc = "idle"
    /\ LET read_pos == ib_read_pos[buffer_type]
       IN  IF RingEmpty(read_pos, ib_write_pos[buffer_type])
           THEN ib_cons' = [ib_cons EXCEPT !.buffer_type = buffer_type, !.ret = None]
           ELSE ib_cons' = [ib_cons EXCEPT !.pc = "copy_quote",
                                           !.buffer_type = buffer_type,
                                           !.read_pos = read_pos,
                                           !.ret = None]
    /\ UNCHANGED <<ib_config, ib_data, ib_write_pos, ib_read_pos, ib_last_sequence,
                   ib_prod, ib_written, ib_consumed, ib_full_rej>>
    /\ UNCHANGED ibOthers

\* RingBuffer::read, line 53: ptr::read, first part of the record
IbReadCopyQuote ==
    /\ ib_cons.pc = "copy_quote"
    /\ ib_cons' = [ib_cons EXCEPT
                     !.pc = "copy_seq",
                     !.record = [ib_cons.record EXCEPT !.last_price =
                         ib_data[ib_cons.buffer_type][ib_cons.read_pos].last_price]]
    /\ UNCHANGED <<ib_config, ib_data, ib_write_pos, ib_read_pos, ib_last_sequence,
                   ib_prod, ib_written, ib_consumed, ib_full_rej>>
    /\ UNCHANGED ibOthers

\* RingBuffer::read, line 53: ptr::read, rest of the record
IbReadCopySeq ==
    /\ ib_cons.pc = "copy_seq"
    /\ ib_cons' = [ib_cons EXCEPT
                     !.pc = "advance",
                     !.record = [ib_cons.record EXCEPT !.sequence_num =
                         ib_data[ib_cons.buffer_type][ib_cons.read_pos].sequence_num]]
    /\ UNCHANGED <<ib_config, ib_data, ib_write_pos, ib_read_pos, ib_last_sequence,
                   ib_prod, ib_written, ib_consumed, ib_full_rej>>
    /\ UNCHANGED ibOthers

\* RingBuffer::read, lines 54-56: release-store read_pos, return Some(record)
IbReadAdvance ==
    /\ ib_cons.pc = "advance"
    /\ LET k == ib_cons.buffer_type
       IN  /\ ib_read_pos' = [ib_read_pos EXCEPT ![k] =
                                NextPos(ib_cons.read_pos, ib_config[k])]
           /\ ib_consumed' = [ib_consumed EXCEPT ![k] = Append(@, ib_cons.record)]
    /\ ib_cons' = [ib_cons EXCEPT !.pc = "idle", !.ret = Some(ib_cons.record),
                                  !.record = UninitSlot]
    /\ UNCHANGED <<ib_config, ib_data, ib_write_pos, ib_last_sequence,
                   ib_prod, ib_written, ib_full_rej>>
    /\ UNCHANGED ibOthers

IbProducerStep ==
    \E p \in DOMAIN ib_prod :
        \/ \E record \in Records3, buffer_type \in BufferType :
               IbWriteGate(p, record, buffer_type)
        \/ IbRingCheck(p)
        \/ IbCopyQuote(p)
        \/ IbCopySeq(p)
        \/ IbPublish(p)
        \/ IbSetSeq(p)

IbConsumerStep ==
    \/ \E buffer_type \in BufferType : IbReadCheck(buffer_type)
    \/ IbReadCopyQuote
    \/ IbReadCopySeq
    \/ IbReadAdvance

(***************************************************************************)
(* src5: ZeroAllocRingBuffer, the ring that carries its own sequence gate. *)
(***************************************************************************)
\* Largest capacity a ring is created with; the smallest is 2.
MaxCapacity == 3

\* MarketDataRecord (src5): token first, sequence_num and timestamp behind the
\* prices and sizes; a record copy moves the head, then the tail.
Records5 == [token : {0, 1}, sequence_num : 0..MaxSeq, timestamp : {0, 1000}]

UninitSlot5 == [token |-> Uninit, sequence_num |-> Uninit, timestamp |-> Uninit]

\* MarketDataRecord::validate (src5)
Validate5(record) ==
    record.token > 0 /\ record.sequence_num > 0 /\ record.timestamp > 0

\* ZeroAllocRingBuffer::is_empty
ZaIsEmpty(read_pos, write_pos) == read_pos = write_pos

\* ZeroAllocRingBuffer::is_full
ZaIsFull(write_pos, read_pos, capacity) ==
    LET next_write == (write_pos + 1) % capacity
    IN  next_write = read_pos

\* a len() that subtracts without the wrapped branch (usize arithmetic)
ZaLenNoWrap(write_pos, read_pos, capacity) == (write_pos - read_pos) % (2 ^ 16)

\* ZeroAllocRingBuffer::len, from the two indices it loaded
ZaLen(write_pos, read_pos, capacity) ==
    IF write_pos >= read_pos
    THEN write_pos - read_pos
    ELSE capacity - (read_pos - write_pos)

\* ZeroAllocRingBuffer::new, lines 21-25: Vec::with_capacity, resize_with and
\* into_boxed_slice leave one heap block, none for a slice of no slots
BoxedSlice(capacity) == IF capacity = 0 THEN {} ELSE {"data"}

\* A copy that first boxes the record: one more heap block
CopyThroughBox(heap) == heap \cup {"boxed"}

\* ZeroAllocRingBuffer::write, lines 58-62: ptr::copy_nonoverlapping moves bytes
\* into the slot array and takes nothing from the heap
CopyNonoverlapping(heap) == heap

\* ZeroAllocRingBuffer::read, line 86: ptr::read moves the slot's bytes to the
\* caller's stack and takes nothing from the heap
PtrRead(heap) == heap

\* RecordStats::new, the counters at Default
RecordStatsNew == [total_updates |-> 0, invalid_records |-> 0, sequence_errors |-> 0]

\* ZeroAllocRingBuffer::new(capacity)
ZaNew(capacity) ==
    /\ za_capacity = capacity
    /\ za_data = [i \in 0..(capacity - 1) |-> UninitSlot5]
    /\ za_write_pos = 0
    /\ za_read_pos = 0
    /\ za_last_sequence = 0
    /\ za_prod = [pc |-> "idle", record |-> UninitSlot5, write_pos |-> 0, ret |-> None]
    /\ za_cons = [pc |-> "idle", read_pos |-> 0, record |-> UninitSlot5, ret |-> None]
    /\ za_obs = [pc |-> "idle", write_pos |-> 0, len |-> 0]
    /\ za_written = <<>>
    /\ za_consumed = <<>>
    /\ za_run = [clean |-> TRUE, reads |-> FALSE]
    /\ za_full_rej = None
    /\ za_heap = BoxedSlice(capacity)
    /\ za_stats = RecordStatsNew

\* ZeroAllocRingBuffer::write, lines 39-42: the sequence gate
ZaWriteGate(record) ==
    /\ za_prod.pc = "idle"
    /\ IF record.sequence_num <= za_last_sequence
       THEN za_prod' = [za_prod EXCEPT !.record = record, !.ret = Some(FALSE)]
       ELSE za_prod' = [za_prod EXCEPT !.pc = "ring", !.record = record, !.ret = None]
    /\ za_run' = [za_run EXCEPT !.clean =
                    /\ za_run.clean
                    /\ ~za_run.reads
                    /\ Validate5(record)
                    /\ \/ za_prod.record = UninitSlot5
                       \/ record.sequence_num > za_prod.record.sequence_num]
    /\ UNCHANGED <<za_capacity, za_heap, za_stats, za_data, za_write_pos, za_read_pos, za_last_sequence,
                   za_cons, za_obs, za_written, za_consumed, za_full_rej>>
    /\ UNCHANGED zaOthers

\* ZeroAllocRingBuffer::write, lines 44-55: full check, then validate; the
\* remainder by a capacity of 0 panics
ZaRingCheck ==
    /\ za_prod.pc = "ring"
    /\ LET write_pos == za_write_pos
           next_write == (write_pos + 1) % za_capacity
       IN  IF za_capacity = 0
           THEN /\ za_prod' = [za_prod EXCEPT !.pc = "panicked"]
                /\ UNCHANGED za_full_rej
           ELSE IF next_write = za_read_pos
           THEN /\ za_prod' = [za_prod EXCEPT !.pc = "idle", !.ret = Some(FALSE)]
                /\ za_full_rej' = Some([record |-> za_prod.record,
                                        held |-> Len(za_written) - Len(za_consumed)])
           ELSE IF ~Validate5(za_prod.record)
           THEN /\ za_prod' = [za_prod EXCEPT !.pc = "idle", !.ret = Some(FALSE)]
                /\ UNCHANGED za_full_rej
           ELSE /\ za_prod' = [za_prod EXCEPT !.pc = "copy_head", !.write_pos = write_pos]
                /\ UNCHANGED za_full_rej
    /\ UNCHANGED <<za_capacity, za_heap, za_stats, za_data, za_write_pos, za_read_pos, za_last_sequence,
                   za_cons, za_obs, za_written, za_consumed, za_run>>
    /\ UNCHANGED zaOthers

\* ZeroAllocRingBuffer::write, lines 58-62: copy_nonoverlapping, head of the record
ZaCopyHead ==
    /\ za_prod.pc = "copy_head"
    /\ za_data' = [za_data EXCEPT ![za_prod.write_pos].token = za_prod.record.token]
    /\ za_prod' = [za_prod EXCEPT !.pc = "copy_tail"]
    /\ za_heap' = CopyNonoverlapping(za_heap)
    /\ UNCHANGED <<za_capacity, za_stats, za_write_pos, za_read_pos, za_last_sequence,
                   za_cons, za_obs, za_written, za_consumed, za_run, za_full_rej>>
    /\ UNCHANGED zaOthers

\* ZeroAllocRingBuffer::write, lines 58-62: copy_nonoverlapping, tail of the record
ZaCopyTail ==
    /\ za_prod.pc = "copy_tail"
    /\ za_data' = [za_data EXCEPT
                     ![za_prod.write_pos].sequence_num = za_prod.record.sequence_num,
                     ![za_prod.write_pos].timestamp = za_prod.record.timestamp]
    /\ za_prod' = [za_prod EXCEPT !.pc = "publish"]
    /\ za_heap' = CopyNonoverlapping(za_heap)
    /\ UNCHANGED <<za_capacity, za_stats, za_write_pos, za_read_pos, za_last_sequence,
                   za_cons, za_obs, za_written, za_consumed, za_run, za_full_rej>>
    /\ UNCHANGED zaOthers

\* ZeroAllocRingBuffer::write, lines 65-68: release fence, release-store write_pos
ZaPublish ==
    /\ za_prod.pc = "publish"
    /\ za_write_pos' = (za_prod.write_pos + 1) % za_capacity
    /\ za_written' = Append(za_written, za_prod.record)
    /\ za_prod' = [za_prod EXCEPT !.pc = "set_seq"]
    /\ za_full_rej' = None
    /\ UNCHANGED <<za_capacity, za_heap, za_stats, za_data, za_read_pos, za_last_sequence,
                   za_cons, za_obs, za_consumed, za_run>>
    /\ UNCHANGED zaOthers

\* A write that leaves last_sequence as it found it
StaleSequence(record) == za_last_sequence

\* ZeroAllocRingBuffer::write, lines 39 and 69: the value stored in last_sequence
\* is the sequence number read from the record at the head of the call
AcceptedSequence(record) == record.sequence_num

\* ZeroAllocRingBuffer::write, lines 69-71: store last_sequence, return true
ZaSetSeq ==
    /\ za_prod.pc = "set_seq"
    /\ za_last_sequence' = AcceptedSequence(za_prod.record)
    /\ za_prod' = [za_prod EXCEPT !.pc = "idle", !.ret = Some(TRUE)]
    /\ UNCHANGED <<za_capacity, za_heap, za_stats, za_data, za_write_pos, za_read_pos,
                   za_cons, za_obs, za_written, za_consumed, za_run, za_full_rej>>
    /\ UNCHANGED zaOthers

\* ZeroAllocRingBuffer::read, lines 78-83: None when empty
ZaReadCheck ==
    /\ za_cons.pc = "idle"
    /\ LET read_pos == za_read_pos
       IN  IF read_pos = za_write_pos
           THEN za_cons' = [za_cons EXCEPT !.ret = None]
           ELSE za_cons' = [za_cons EXCEPT !.pc = "copy_head", !.read_pos = read_pos,
                                           !.ret = None]
    /\ za_run' = [za_run EXCEPT !.reads = TRUE]
    /\ UNCHANGED <<za_capacity, za_heap, za_stats, za_data, za_write_pos, za_read_pos, za_last_sequence,
                   za_prod, za_obs, za_written, za_consumed, za_full_rej>>
    /\ UNCHANGED zaOthers

\* ZeroAllocRingBuffer::read, line 86: ptr::read, head of the record
ZaReadCopyHead ==
    /\ za_cons.pc = "copy_head"
    /\ za_cons' = [za_cons EXCEPT
                     !.pc = "copy_tail",
                     !.record = [za_cons.record EXCEPT
                                   !.token = za_data[za_cons.read_pos].token]]
    /\ za_heap' = PtrRead(za_heap)
    /\ UNCHANGED <<za_capacity, za_stats, za_data, za_write_pos, za_read_pos, za_last_sequence,
                   za_prod, za_obs, za_written, za_consumed, za_run, za_full_rej>>
    /\ UNCHANGED zaOthers

\* ZeroAllocRingBuffer::read, line 86: ptr::read, tail of the record
ZaReadCopyTail ==
    /\ za_cons.pc = "copy_tail"
    /\ za_cons' = [za_cons EXCEPT
                     !.pc = "advance",
                     !.record = [za_cons.record EXCEPT
                         !.sequence_num = za_data[za_cons.read_pos].sequence_num,
                         !.timestamp = za_data[za_cons.read_pos].timestamp]]
    /\ za_heap' = PtrRead(za_heap)
    /\ UNCHANGED <<za_capacity, za_stats, za_data, za_write_pos, za_read_pos, za_last_sequence,
                   za_prod, za_obs, za_written, za_consumed, za_run, za_full_rej>>
    /\ UNCHANGED zaOthers

\* ZeroAllocRingBuffer::read, lines 88-91: release-store read_pos, return Some(record)
ZaReadAdvance ==
    /\ za_cons.pc = "advance"
    /\ za_read_pos' = (za_cons.read_pos + 1) % za_capacity
    /\ za_consumed' = Append(za_consumed, za_cons.record)
    /\ za_cons' = [za_cons EXCEPT !.pc = "idle", !.ret = Some(za_cons.record),
                                  !.record = UninitSlot5]
    /\ UNCHANGED <<za_capacity, za_heap, za_stats, za_data, za_write_pos, za_last_sequence,
                   za_prod, za_obs, za_written, za_run, za_full_rej>>
    /\ UNCHANGED zaOthers

\* ZeroAllocRingBuffer::len, line 111: load write_pos
ZaLenLoadWrite ==
    /\ za_obs.pc = "idle"
    /\ za_obs' = [za_obs EXCEPT !.pc = "load_read", !.write_pos = za_write_pos]
    /\ UNCHANGED <<za_capacity, za_heap, za_stats, za_data, za_write_pos, za_read_pos, za_last_sequence,
                   za_prod, za_cons, za_written, za_consumed, za_run, za_full_rej>>
    /\ UNCHANGED zaOthers

\* ZeroAllocRingBuffer::len, lines 112-118: load read_pos, return the difference
ZaLenLoadRead ==
    /\ za_obs.pc = "load_read"
    /\ za_obs' = [za_obs EXCEPT !.pc = "idle",
                                !.len = ZaLen(za_obs.write_pos, za_read_pos, za_capacity)]
    /\ UNCHANGED <<za_capacity, za_heap, za_stats, za_data, za_write_pos, za_read_pos, za_last_sequence,
                   za_prod, za_cons, za_written, za_consumed, za_run, za_full_rej>>
    /\ UNCHANGED zaOthers

ZaProducerStep ==
    \/ \E record \in Records5 : ZaWriteGate(record)
    \/ ZaRingCheck
    \/ ZaCopyHead
    \/ ZaCopyTail
    \/ ZaPublish
    \/ ZaSetSeq

ZaConsumerStep ==
    \/ ZaReadCheck
    \/ ZaReadCopyHead
    \/ ZaReadCopyTail
    \/ ZaReadAdvance

ZaObserverStep ==
    \/ ZaLenLoadWrite
    \/ ZaLenLoadRead

(***************************************************************************)
(* src2: ZeroAllocRingBuffer, written with streaming stores where AVX2 is  *)
(* detected, read by reference and copied by InstrumentBuffer::read.       *)
(***************************************************************************)
\* Number of writes the producer gets accepted.
MaxWrites2 == 3

\* The fields of MarketDataRecord (src3/core/market_data.rs, the record the
\* src2 manager is used with) that lie in its first 32 bytes, and those behind.
First32 == {"bid_price", "ask_price", "bid_size", "ask_size"}
Behind32 == {"last_price", "sequence_num"}

Records2 == [bid_price : {0, 100, 101}, ask_price : {101}, bid_size : {100},
             ask_size : {100}, last_price : {100}, sequence_num : 1..2]

UninitSlot2 == [f \in First32 \cup Behind32 |-> Uninit]

\* MarketDataRecord::validate (src3/core/market_data.rs)
Validate2(record) ==
    /\ record.bid_price > 0
    /\ record.ask_price > 0
    /\ record.ask_price >= record.bid_price
    /\ record.bid_size > 0
    /\ record.ask_size > 0

\* MarketDataRecord::size_bytes: mem::size_of of the 64-byte aligned struct
SizeBytes2 == 128

\* a store of the fields `fields` of `record` into a slot
StoreFields(slot, record, fields) ==
    [f \in DOMAIN slot |-> IF f \in fields THEN record[f] ELSE slot[f]]

\* What a read of a slot part can return when nothing orders it after the store
\* that filled the part (write_idx is loaded Relaxed; the streaming store is
\* followed by no store fence): the part as stored, or as it was before.
RacyRead(stored, before) == {stored, before}

\* ZeroAllocRingBuffer::new(capacity), on a build where AVX2 is or is not detected
ZbNew(capacity, avx2) ==
    /\ zb_capacity = capacity
    /\ zb_avx2 = avx2
    /\ zb_buffer = [i \in 0..(capacity - 1) |-> UninitSlot2]
    /\ zb_before = [i \in 0..(capacity - 1) |-> UninitSlot2]
    /\ zb_write_idx = 0
    /\ zb_read_idx = 0
    /\ zb_prod = [pc |-> "idle", record |-> UninitSlot2, idx |-> 0, ret |-> None]
    /\ zb_cons = [pc |-> "idle", idx |-> 0, record |-> UninitSlot2, ret |-> None]
    /\ zb_written = <<>>
    /\ zb_consumed = <<>>

\* ZeroAllocRingBuffer::write, lines 37-53: full check, validate, choice of the copy
ZbWriteCheck(record) ==
    /\ zb_prod.pc = "idle"
    /\ Len(zb_written) < MaxWrites2
    /\ LET idx == zb_write_idx
           next_idx == (idx + 1) % zb_capacity
       IN  IF next_idx = zb_read_idx
           THEN zb_prod' = [zb_prod EXCEPT !.record = record, !.ret = Some(FALSE)]
           ELSE IF ~Validate2(record)
           THEN zb_prod' = [zb_prod EXCEPT !.record = record, !.ret = Some(FALSE)]
           ELSE zb_prod' = [zb_prod EXCEPT
                              !.pc = IF zb_avx2 /\ SizeBytes2 >= 32
                                     THEN "stream" ELSE "copy_first",
                              !.record = record, !.idx = idx, !.ret = None]
    /\ UNCHANGED <<zb_capacity, zb_avx2, zb_buffer, zb_before, zb_write_idx,
                   zb_read_idx, zb_cons, zb_written, zb_consumed>>
    /\ UNCHANGED zbOthers

\* ZeroAllocRingBuffer::write, lines 54-56: one _mm256_stream_si256 of 32 bytes
ZbStream ==
    /\ zb_prod.pc = "stream"
    /\ zb_buffer' = [zb_buffer EXCEPT ![zb_prod.idx] =
                       StoreFields(@, zb_prod.record, First32)]
    /\ zb_before' = [zb_before EXCEPT ![zb_prod.idx] =
                       StoreFields(@, zb_buffer[zb_prod.idx], First32)]
    /\ zb_prod' = [zb_prod EXCEPT !.pc = "publish"]
    /\ UNCHANGED <<zb_capacity, zb_avx2, zb_write_idx, zb_read_idx, zb_cons,
                   zb_written, zb_consumed>>
    /\ UNCHANGED zbOthers

\* ZeroAllocRingBuffer::write, lines 58-62: copy_nonoverlapping, first 32 bytes
ZbCopyFirst ==
    /\ zb_prod.pc = "copy_first"
    /\ zb_buffer' = [zb_buffer EXCEPT ![zb_prod.idx] =
                       StoreFields(@, zb_prod.record, First32)]
    /\ zb_before' = [zb_before EXCEPT ![zb_prod.idx] =
                       StoreFields(@, zb_buffer[zb_prod.idx], First32)]
    /\ zb_prod' = [zb_prod EXCEPT !.pc = "copy_behind"]
    /\ UNCHANGED <<zb_capacity, zb_avx2, zb_write_idx, zb_read_idx, zb_cons,
                   zb_written, zb_consumed>>
    /\ UNCHANGED zbOthers

\* ZeroAllocRingBuffer::write, lines 58-62: copy_nonoverlapping, the bytes behind
ZbCopyBehind ==
    /\ zb_prod.pc = "copy_behind"
    /\ zb_buffer' = [zb_buffer EXCEPT ![zb_prod.idx] =
                       StoreFields(@, zb_prod.record, Behind32)]
    /\ zb_before' = [zb_before EXCEPT ![zb_prod.idx] =
                       StoreFields(@, zb_buffer[zb_prod.idx], Behind32)]
    /\ zb_prod' = [zb_prod EXCEPT !.pc = "publish"]
    /\ UNCHANGED <<zb_capacity, zb_avx2, zb_write_idx, zb_read_idx, zb_cons,
                   zb_written, zb_consumed>>
    /\ UNCHANGED zbOthers

\* ZeroAllocRingBuffer::write, lines 74-76: release fence, store write_idx, return true
ZbPublish ==
    /\ zb_prod.pc = "publish"
    /\ zb_write_idx' = (zb_prod.idx + 1) % zb_capacity
    /\ zb_written' = Append(zb_written, zb_prod.record)
    /\ zb_prod' = [zb_prod EXCEPT !.pc = "idle", !.ret = Some(TRUE)]
    /\ UNCHANGED <<zb_capacity, zb_avx2, zb_buffer, zb_before, zb_read_idx, zb_cons,
                   zb_consumed>>
    /\ UNCHANGED zbOthers

\* ZeroAllocRingBuffer::read, lines 83-86: None when empty
ZbReadCheck ==
    /\ zb_cons.pc = "idle"
    /\ LET idx == zb_read_idx
       IN  IF idx = zb_write_idx
           THEN zb_cons' = [zb_cons EXCEPT !.ret = None]
           ELSE zb_cons' = [zb_cons EXCEPT !.pc = "advance", !.idx = idx, !.ret = None]
    /\ UNCHANGED <<zb_capacity, zb_avx2, zb_buffer, zb_before, zb_write_idx,
                   zb_read_idx, zb_prod, zb_written, zb_consumed>>
    /\ UNCHANGED zbOthers

\* a read that returns the reference and leaves read_idx where it was
ZbReadAdvanceKeepsIndex ==
    /\ zb_cons.pc = "advance"
    /\ zb_cons' = [zb_cons EXCEPT !.pc = "deref_first"]
    /\ UNCHANGED <<zb_capacity, zb_avx2, zb_buffer, zb_before, zb_write_idx,
                   zb_read_idx, zb_prod, zb_written, zb_consumed>>
    /\ UNCHANGED zbOthers

\* ZeroAllocRingBuffer::read, lines 89-94: store read_idx, return the reference
ZbReadAdvance ==
    /\ zb_cons.pc = "advance"
    /\ zb_read_idx' = (zb_cons.idx + 1) % zb_capacity
    /\ zb_cons' = [zb_cons EXCEPT !.pc = "deref_first"]
    /\ UNCHANGED <<zb_capacity, zb_avx2, zb_buffer, zb_before, zb_write_idx,
                   zb_prod, zb_written, zb_consumed>>
    /\ UNCHANGED zbOthers

\* InstrumentBuffer::read, lines 53-55: *r, first 32 bytes of the slot
ZbDerefFirst ==
    /\ zb_cons.pc = "deref_first"
    /\ \E from \in RacyRead(zb_buffer[zb_cons.idx], zb_before[zb_cons.idx]) :
           zb_cons' = [zb_cons EXCEPT !.pc = "deref_behind",
                                      !.record = StoreFields(@, from, First32)]
    /\ UNCHANGED <<zb_capacity, zb_avx2, zb_buffer, zb_before, zb_write_idx,
                   zb_read_idx, zb_prod, zb_written, zb_consumed>>
    /\ UNCHANGED zbOthers

\* InstrumentBuffer::read, lines 53-55: *r, the bytes behind; return Some(record)
ZbDerefBehind ==
    /\ zb_cons.pc = "deref_behind"
    /\ \E from \in RacyRead(zb_buffer[zb_cons.idx], zb_before[zb_cons.idx]) :
           LET record == StoreFields(zb_cons.record, from, Behind32)
           IN  /\ zb_cons' = [zb_cons EXCEPT !.pc = "idle", !.ret = Some(record),
                                             !.record = UninitSlot2]
               /\ zb_consumed' = Append(zb_consumed, record)
    /\ UNCHANGED <<zb_capacity, zb_avx2, zb_buffer, zb_before, zb_write_idx,
                   zb_read_idx, zb_prod, zb_written>>
    /\ UNCHANGED zbOthers

ZbProducerStep ==
    \/ \E record \in Records2 : ZbWriteCheck(record)
    \/ ZbStream
    \/ ZbCopyFirst
    \/ ZbCopyBehind
    \/ ZbPublish

ZbConsumerStep ==
    \/ ZbReadCheck
    \/ ZbReadAdvance
    \/ ZbDerefFirst
    \/ ZbDerefBehind

(***************************************************************************)
(* src2: InstrumentIndex, the instrument directory.                        *)
(***************************************************************************)
\* Largest instrument token registered or looked up; the smallest is 0.
MaxToken == 2
\* Capacity the directory is created with.
DirCapacity == 2

Tokens == 0..MaxToken

Threads == {"t1", "t2"}

IdleThread ==
    [pc |-> "idle", op |-> "none", token |-> 0, count |-> 0, i |-> 0, ret |-> None,
     known |-> FALSE, synced |-> 0]

\* The slots whose registration had returned: the stores of index[i] and count
\* that a call beginning now is sure to see.  The slots are handed out in order,
\* one per registered token.
SyncedSlots == Cardinality(ii_done)

\* count.load(Relaxed), line 59: nothing orders the load after the fetch_add of
\* a registration that has not returned, so it yields the current count or an
\* older one, never one older than the registrations that had returned
RelaxedCount(synced, count) == synced..count

\* index[i].load(Relaxed), line 60: for a slot whose registration had returned
\* when the lookup began, the token stored; for a later slot the token stored or
\* the 0 that new() put there (the load of count was Relaxed, not Acquire, so
\* seeing count above i does not bring the store of index[i] with it)
RelaxedIndex(i, synced) == IF i < synced THEN {ii_index[i]} ELSE {ii_index[i], 0}

\* HashMap::insert
MapInsert(map, token, idx) ==
    [t \in (DOMAIN map) \cup {token} |-> IF t = token THEN idx ELSE map[t]]

\* InstrumentIndex::new(capacity)
IiNew(capacity) ==
    /\ ii_capacity = capacity
    /\ ii_index = [i \in 0..(capacity - 1) |-> 0]
    /\ ii_token_map = [t \in {} |-> 0]
    /\ ii_count = 0
    /\ ii_lock = None
    /\ ii_thread = [th \in Threads |-> IdleThread]
    /\ ii_assigned = [t \in {} |-> 0]
    /\ ii_done = {}

\* history kept when register_instrument returns Some(idx)
Registered(token, idx) ==
    /\ ii_assigned' = IF token \in DOMAIN ii_assigned
                      THEN ii_assigned
                      ELSE MapInsert(ii_assigned, token, idx)
    /\ ii_done' = ii_done \cup {token}

\* register_instrument, line 37: take the write lock of token_map
IiRegLock(th, token) ==
    /\ ii_thread[th].pc = "idle"
    /\ ii_lock = None
    /\ ii_lock' = Some(th)
    /\ ii_thread' = [ii_thread EXCEPT ![th] =
                       [IdleThread EXCEPT !.pc = "reg_check", !.op = "register",
                                          !.token = token]]
    /\ UNCHANGED <<ii_capacity, ii_index, ii_token_map, ii_count, ii_assigned, ii_done>>
    /\ UNCHANGED iiOthers

\* a registration that does not look the token up before taking a slot
IiRegCheckNoLookup(th) ==
    /\ ii_thread[th].pc = "reg_check"
    /\ LET count == ii_count
       IN  IF count >= ii_capacity
           THEN /\ ii_thread' = [ii_thread EXCEPT ![th].pc = "idle", ![th].ret = None]
                /\ ii_lock' = None
           ELSE /\ ii_thread' = [ii_thread EXCEPT ![th].pc = "reg_insert",
                                                  ![th].count = count]
                /\ UNCHANGED ii_lock
    /\ UNCHANGED <<ii_capacity, ii_index, ii_token_map, ii_count, ii_assigned, ii_done>>
    /\ UNCHANGED iiOthers

\* register_instrument, lines 38-45: known token, or directory full
IiRegCheck(th) ==
    /\ ii_thread[th].pc = "reg_check"
    /\ LET token == ii_thread[th].token
           count == ii_count
       IN  IF token \in DOMAIN ii_token_map
           THEN /\ ii_thread' = [ii_thread EXCEPT ![th].pc = "idle",
                                                  ![th].ret = Some(ii_token_map[token])]
                /\ ii_lock' = None
                /\ Registered(token, ii_token_map[token])
           ELSE IF count >= ii_capacity
           THEN /\ ii_thread' = [ii_thread EXCEPT ![th].pc = "idle", ![th].ret = None]
                /\ ii_lock' = None
                /\ UNCHANGED <<ii_assigned, ii_done>>
           ELSE /\ ii_thread' = [ii_thread EXCEPT ![th].pc = "reg_insert",
                                                  ![th].count = count]
                /\ UNCHANGED <<ii_lock, ii_assigned, ii_done>>
    /\ UNCHANGED <<ii_capacity, ii_index, ii_token_map, ii_count>>
    /\ UNCHANGED iiOthers

\* register_instrument, lines 47-48: map.insert(token, idx)
IiRegInsert(th) ==
    /\ ii_thread[th].pc = "reg_insert"
    /\ ii_token_map' = MapInsert(ii_token_map, ii_thread[th].token, ii_thread[th].count)
    /\ ii_thread' = [ii_thread EXCEPT ![th].pc = "reg_store"]
    /\ UNCHANGED <<ii_capacity, ii_index, ii_count, ii_lock, ii_assigned, ii_done>>
    /\ UNCHANGED iiOthers

\* a registration that leaves the array as it was
IiRegStoreSkipped(th) ==
    /\ ii_thread[th].pc = "reg_store"
    /\ ii_thread' = [ii_thread EXCEPT ![th].pc = "reg_count"]
    /\ UNCHANGED <<ii_capacity, ii_index, ii_token_map, ii_count, ii_lock,
                   ii_assigned, ii_done>>
    /\ UNCHANGED iiOthers

\* register_instrument, line 49: index[idx].store(token, Release)
IiRegStore(th) ==
    /\ ii_thread[th].pc = "reg_store"
    /\ ii_index' = [ii_index EXCEPT ![ii_thread[th].count] = ii_thread[th].token]
    /\ ii_thread' = [ii_thread EXCEPT ![th].pc = "reg_count"]
    /\ UNCHANGED <<ii_capacity, ii_token_map, ii_count, ii_lock, ii_assigned, ii_done>>
    /\ UNCHANGED iiOthers

\* a registration that leaves count as it was
IiRegCountSkipped(th) ==
    /\ ii_thread[th].pc = "reg_count"
    /\ ii_thread' = [ii_thread EXCEPT ![th].pc = "reg_return"]
    /\ UNCHANGED <<ii_capacity, ii_index, ii_token_map, ii_count, ii_lock,
                   ii_assigned, ii_done>>
    /\ UNCHANGED iiOthers

\* register_instrument, line 50: count.fetch_add(1, Release)
IiRegCount(th) ==
    /\ ii_thread[th].pc = "reg_count"
    /\ ii_count' = ii_count + 1
    /\ ii_thread' = [ii_thread EXCEPT ![th].pc = "reg_return"]
    /\ UNCHANGED <<ii_capacity, ii_index, ii_token_map, ii_lock, ii_assigned, ii_done>>
    /\ UNCHANGED iiOthers

\* register_instrument, lines 51-52: return Some(idx), dropping the write lock
IiRegReturn(th) ==
    /\ ii_thread[th].pc = "reg_return"
    /\ ii_lock' = None
    /\ ii_thread' = [ii_thread EXCEPT ![th].pc = "idle", ![th].ret = Some(ii_thread[th].count)]
    /\ Registered(ii_thread[th].token, ii_thread[th].count)
    /\ UNCHANGED <<ii_capacity, ii_index, ii_token_map, ii_count>>
    /\ UNCHANGED iiOthers

\* get_buffer_index, line 59: count.load(Relaxed), the bound of the scan
IiLookStart(th, token) ==
    /\ ii_thread[th].pc = "idle"
    /\ \E count \in RelaxedCount(SyncedSlots, ii_count) :
           ii_thread' = [ii_thread EXCEPT ![th] =
                           [IdleThread EXCEPT !.pc = "scan", !.op = "lookup",
                                              !.token = token, !.count = count,
                                              !.known = (token \in ii_done),
                                              !.synced = SyncedSlots]]
    /\ UNCHANGED <<ii_capacity, ii_index, ii_token_map, ii_count, ii_lock,
                   ii_assigned, ii_done>>
    /\ UNCHANGED iiOthers

\* a lookup that skips the scan of the array and asks the map under the lock
IiLookScanNoFastPath(th) ==
    /\ ii_thread[th].pc = "scan"
    /\ ii_thread' = [ii_thread EXCEPT ![th].pc = "slow"]
    /\ UNCHANGED <<ii_capacity, ii_index, ii_token_map, ii_count, ii_lock,
                   ii_assigned, ii_done>>
    /\ UNCHANGED iiOthers

\* get_buffer_index, lines 59-63: one turn of the scan of index[0..count]
IiLookScan(th) ==
    /\ ii_thread[th].pc = "scan"
    /\ LET i == ii_thread[th].i
       IN  IF i < ii_thread[th].count
           THEN \E loaded \in RelaxedIndex(i, ii_thread[th].synced) :
                    IF loaded = ii_thread[th].token
                    THEN ii_thread' = [ii_thread EXCEPT ![th].pc = "idle", ![th].ret = Some(i)]
                    ELSE ii_thread' = [ii_thread EXCEPT ![th].i = i + 1]
           ELSE ii_thread' = [ii_thread EXCEPT ![th].pc = "slow"]
    /\ UNCHANGED <<ii_capacity, ii_index, ii_token_map, ii_count, ii_lock,
                   ii_assigned, ii_done>>
    /\ UNCHANGED iiOthers

\* get_buffer_index, line 66: token_map.read().get(&token).copied()
IiLookSlow(th) ==
    /\ ii_thread[th].pc = "slow"
    /\ ii_lock = None
    /\ LET token == ii_thread[th].token
       IN  ii_thread' = [ii_thread EXCEPT
                           ![th].pc = "idle",
                           ![th].ret = IF token \in DOMAIN ii_token_map
                                       THEN Some(ii_token_map[token]) ELSE None]
    /\ UNCHANGED <<ii_capacity, ii_index, ii_token_map, ii_count, ii_lock,
                   ii_assigned, ii_done>>
    /\ UNCHANGED iiOthers

IiRegisterStep ==
    \E th \in Threads :
        \/ \E token \in Tokens : IiRegLock(th, token)
        \/ IiRegCheck(th)
        \/ IiRegInsert(th)
        \/ IiRegStore(th)
        \/ IiRegCount(th)
        \/ IiRegReturn(th)

IiLookupStep ==
    \E th \in Threads :
        \/ \E token \in Tokens : IiLookStart(th, token)
        \/ IiLookScan(th)
        \/ IiLookSlow(th)

(***************************************************************************)
(* src3: InstrumentBufferManager, its directory and its buffer sets, one   *)
(* call at a time (register_instrument takes &mut self).                   *)
(***************************************************************************)
\* Option::unwrap of a Some
Unwrap(opt) == CHOOSE x \in opt : TRUE

\* A u64 token, as its upper and its lower 32 bits.
U64(hi, lo) == [hi |-> hi, lo |-> lo]

\* u64 -> u32 by try_into(): Err (here None) when the value does not fit
TryIntoU32(token) == IF token.hi = 0 THEN Some(token.lo) ELSE None

\* The tokens the manager is called with: those of the directory model, and 2^32.
ManagerTokens == {U64(0, lo) : lo \in Tokens} \cup {U64(1, 0)}

\* InstrumentIndex::new, as a value
InstrumentIndexNew(capacity) ==
    [index |-> [i \in 0..(capacity - 1) |-> 0],
     token_map |-> [t \in {} |-> 0],
     count |-> 0,
     capacity |-> capacity]

\* InstrumentIndex::register_instrument, run alone: the directory after the
\* call and what the call returns
IndexRegisterInstrument(dir, token) ==
    IF token \in DOMAIN dir.token_map
    THEN [dir |-> dir, ret |-> Some(dir.token_map[token])]
    ELSE IF dir.count >= dir.capacity
    THEN [dir |-> dir, ret |-> None]
    ELSE LET idx == dir.count
         IN  [dir |-> [dir EXCEPT !.token_map = MapInsert(@, token, idx),
                                  !.index[idx] = token,
                                  !.count = @ + 1],
              ret |-> Some(idx)]

\* InstrumentIndex::get_buffer_index, run alone
IndexGetBufferIndex(dir, token) ==
    LET hits == {i \in 0..(dir.count - 1) : dir.index[i] = token}
    IN  IF hits # {}
        THEN Some(CHOOSE i \in hits : \A j \in hits : i <= j)
        ELSE IF token \in DOMAIN dir.token_map
        THEN Some(dir.token_map[token])
        ELSE None

\* RingBuffer::new, as a value
RingBufferNew(capacity) ==
    [capacity |-> capacity, write_pos |-> 0, read_pos |-> 0,
     data |-> [i \in 0..(capacity - 1) |-> UninitSlot]]

\* RingBuffer::write, run alone: the ring after the call and what it returns
RingBufferWrite(ring, record) ==
    LET next_write == NextPos(ring.write_pos, ring.capacity)
    IN  IF RingFull(next_write, ring.read_pos)
        THEN [ring |-> ring, ret |-> FALSE]
        ELSE [ring |-> [ring EXCEPT !.data[ring.write_pos] = record,
                                    !.write_pos = next_write],
              ret |-> TRUE]

\* RingBuffer::read, run alone
RingBufferRead(ring) ==
    IF RingEmpty(ring.read_pos, ring.write_pos)
    THEN [ring |-> ring, ret |-> None]
    ELSE [ring |-> [ring EXCEPT !.read_pos = NextPos(ring.read_pos, ring.capacity)],
          ret |-> Some(ring.data[ring.read_pos])]

\* InstrumentBuffer::new, as a value; id tells one constructed set from another
InstrumentBufferNew(id, token, config) ==
    [id |-> id, token |-> token, last_sequence |-> 0,
     rings |-> [k \in BufferType |-> RingBufferNew(config[k])]]

\* a dispatch that sends every buffer type to the L1 ring
DispatchToL1(buffer_type) == "L1Price"

\* InstrumentBuffer::write and read, lines 84-88 and 105-109: the match on
\* buffer_type that picks l1_buffer, l2_buffer or ref_buffer
Dispatch(buffer_type) == buffer_type

\* InstrumentBuffer::write, run alone
InstrumentBufferWrite(set, record, buffer_type) ==
    IF OutOfSequence(record.sequence_num, set.last_sequence)
    THEN [set |-> set, ret |-> FALSE]
    ELSE LET w == RingBufferWrite(set.rings[Dispatch(buffer_type)], record)
         IN  IF w.ret
             THEN [set |-> [set EXCEPT !.rings[Dispatch(buffer_type)] = w.ring,
                                       !.last_sequence = record.sequence_num],
                   ret |-> TRUE]
             ELSE [set |-> set, ret |-> FALSE]

\* InstrumentBuffer::read, run alone
InstrumentBufferRead(set, buffer_type) ==
    LET r == RingBufferRead(set.rings[Dispatch(buffer_type)])
    IN  [set |-> [set EXCEPT !.rings[Dispatch(buffer_type)] = r.ring], ret |-> r.ret]

\* largest sequence number of a record handed to the manager
MgrMaxSeq == 2
ManagerRecords == {MarketDataRecord(sequence) : sequence \in 0..MgrMaxSeq}

\* buffer types the manager's callers write to and read from
ManagerKinds == {"L1Price", "L2Trade"}

\* InstrumentBufferConfig the manager is created with
ManagerConfig == [L1Price |-> L1Size, L2Trade |-> L2Size, Reference |-> RefSize]

\* history entry of an accepted write
Placed(token, buffer_type, record) ==
    [token |-> token, buffer_type |-> buffer_type, sequence_num |-> record.sequence_num]

\* No manager call has been made yet.
NoCall ==
    [op |-> "none", token |-> U64(0, 0), buffer_type |-> "none", written |-> None,
     handle |-> None, record |-> None]

\* InstrumentBufferManager::new(capacity, config)
MgNew(capacity) ==
    /\ mg_index = InstrumentIndexNew(capacity)
    /\ mg_buffers = [i \in 0..(capacity - 1) |-> None]
    /\ mg_created = 0
    /\ mg_last = NoCall
    /\ mg_panicked = FALSE
    /\ mg_placed = {}

\* a check of the slot that never finds a buffer set there
NeverHasBufferSet(buffers, idx) == FALSE

\* register_instrument, line 138: self.buffers[idx].is_some()
HasBufferSet(buffers, idx) == buffers[idx] # None

\* a registration that asks the directory but never fills the slot
MgRegisterInstrumentNoStore(token) ==
    /\ ~mg_panicked
    /\ TryIntoU32(token) # None
    /\ LET r == IndexRegisterInstrument(mg_index, Unwrap(TryIntoU32(token)))
       IN  /\ mg_index' = r.dir
           /\ mg_last' = [NoCall EXCEPT !.op = "register", !.token = token]
    /\ UNCHANGED <<mg_buffers, mg_created, mg_panicked, mg_placed>>
    /\ UNCHANGED mgOthers

\* InstrumentBufferManager::register_instrument(token)
MgRegisterInstrument(token) ==
    /\ ~mg_panicked
    /\ LET call == [NoCall EXCEPT !.op = "register", !.token = token]
           t32 == TryIntoU32(token)
       IN  IF t32 = None
           THEN /\ mg_panicked' = TRUE
                /\ mg_last' = call
                /\ UNCHANGED <<mg_index, mg_buffers, mg_created>>
           ELSE LET r == IndexRegisterInstrument(mg_index, Unwrap(t32))
                IN  /\ mg_index' = r.dir
                    /\ UNCHANGED mg_panicked
                    /\ IF r.ret = None
                       THEN /\ mg_last' = call
                            /\ UNCHANGED <<mg_buffers, mg_created>>
                       ELSE LET idx == Unwrap(r.ret)
                            IN  IF HasBufferSet(mg_buffers, idx)
                                THEN /\ mg_last' = [call EXCEPT !.handle =
                                                      Some(Unwrap(mg_buffers[idx]).id)]
                                     /\ UNCHANGED <<mg_buffers, mg_created>>
                                ELSE LET buffer == InstrumentBufferNew(mg_created, token,
                                                                       ManagerConfig)
                                     IN  /\ mg_buffers' = [mg_buffers EXCEPT
                                                             ![idx] = Some(buffer)]
                                         /\ mg_created' = mg_created + 1
                                         /\ mg_last' = [call EXCEPT !.handle =
                                                          Some(buffer.id)]
    /\ UNCHANGED mg_placed
    /\ UNCHANGED mgOthers

\* InstrumentBufferManager::write(token, record, buffer_type)
MgWrite(token, record, buffer_type) ==
    /\ ~mg_panicked
    /\ LET call == [NoCall EXCEPT !.op = "write", !.token = token,
                                  !.buffer_type = buffer_type]
           t32 == TryIntoU32(token)
       IN  IF t32 = None
           THEN /\ mg_panicked' = TRUE
                /\ mg_last' = call
                /\ UNCHANGED <<mg_buffers, mg_placed>>
           ELSE LET found == IndexGetBufferIndex(mg_index, Unwrap(t32))
                IN  /\ UNCHANGED mg_panicked
                    /\ IF found # None /\ mg_buffers[Unwrap(found)] # None
                       THEN LET idx == Unwrap(found)
                                w == InstrumentBufferWrite(Unwrap(mg_buffers[idx]),
                                                           record, buffer_type)
                            IN  /\ mg_buffers' = [mg_buffers EXCEPT ![idx] = Some(w.set)]
                                /\ mg_last' = [call EXCEPT !.written = Some(w.ret)]
                                /\ mg_placed' = IF w.ret
                                                THEN mg_placed \cup
                                                     {Placed(Unwrap(t32), buffer_type, record)}
                                                ELSE mg_placed
                       ELSE /\ mg_last' = [call EXCEPT !.written = Some(FALSE)]
                            /\ UNCHANGED <<mg_buffers, mg_placed>>
    /\ UNCHANGED <<mg_index, mg_created>>
    /\ UNCHANGED mgOthers

\* InstrumentBufferManager::read(token, buffer_type)
MgRead(token, buffer_type) ==
    /\ ~mg_panicked
    /\ LET call == [NoCall EXCEPT !.op = "read", !.token = token,
                                  !.buffer_type = buffer_type]
           t32 == TryIntoU32(token)
       IN  IF t32 = None
           THEN /\ mg_panicked' = TRUE
                /\ mg_last' = call
                /\ UNCHANGED mg_buffers
           ELSE LET found == IndexGetBufferIndex(mg_index, Unwrap(t32))
                IN  /\ UNCHANGED mg_panicked
                    /\ IF found # None /\ mg_buffers[Unwrap(found)] # None
                       THEN LET idx == Unwrap(found)
                                r == InstrumentBufferRead(Unwrap(mg_buffers[idx]),
                                                          buffer_type)
                            IN  /\ mg_buffers' = [mg_buffers EXCEPT ![idx] = Some(r.set)]
                                /\ mg_last' = [call EXCEPT !.record = r.ret]
                       ELSE /\ mg_last' = call
                            /\ UNCHANGED mg_buffers
    /\ UNCHANGED <<mg_index, mg_created, mg_placed>>
    /\ UNCHANGED mgOthers

(***************************************************************************)
(* src2: UltraLowLatencyDB.  db.write and db.read go straight to the one   *)
(* ZeroAllocRingBuffer behind the Arc, from every thread that holds a      *)
(* clone (test_thread_safety: writer i writes one record with symbol_id i, *)
(* readers call read).  Loads and stores take effect in program order.     *)
(***************************************************************************)
DbCapacity == 3
DbMaxReads == 2
Writers == {"w1", "w2"}
Readers == {"r1", "r2"}

\* The fields of UltraLowLatencyRecord in its first 32 bytes, and those behind.
DbFirst32 == {"symbol_id", "price", "quantity", "timestamp"}
DbBehind32 == {"flags"}

\* UltraLowLatencyRecord::new(symbol_id, price, quantity, timestamp, flags)
UltraLowLatencyRecordNew(symbol_id, price, quantity, timestamp, flags) ==
    [symbol_id |-> symbol_id, price |-> price, quantity |-> quantity,
     timestamp |-> timestamp, flags |-> flags]

\* the record writer thread i of test_thread_safety writes
DbRecordOf(w) ==
    UltraLowLatencyRecordNew(IF w = "w1" THEN 0 ELSE 1, 100, 1000, 0, 0)

DbUninitSlot == [f \in DbFirst32 \cup DbBehind32 |-> Uninit]

\* UltraLowLatencyDB::new(capacity)
DbNew(capacity, avx2) ==
    /\ db_avx2 = avx2
    /\ db_buffer = [i \in 0..(capacity - 1) |-> DbUninitSlot]
    /\ db_write_idx = 0
    /\ db_read_idx = 0
    /\ db_writer = [w \in Writers |-> [pc |-> "idle", idx |-> 0, ret |-> None]]
    /\ db_reader = [r \in Readers |-> [pc |-> "idle", idx |-> 0, reads |-> 0]]
    /\ db_written = <<>>
    /\ db_returned = <<>>

\* db.write -> ring.write, lines 37-48: load write_idx, full check (the test's
\* records pass validate)
DbWriteCheck(w) ==
    /\ db_writer[w].pc = "idle"
    /\ db_writer[w].ret = None
    /\ LET idx == db_write_idx
           next_idx == (idx + 1) % DbCapacity
       IN  IF next_idx = db_read_idx
           THEN db_writer' = [db_writer EXCEPT ![w].ret = Some(FALSE)]
           ELSE db_writer' = [db_writer EXCEPT ![w].pc = "store", ![w].idx = idx]
    /\ UNCHANGED <<db_avx2, db_buffer, db_write_idx, db_read_idx, db_reader,
                   db_written, db_returned>>
    /\ UNCHANGED dbOthers

\* ring.write, lines 51-72: the streaming store of 32 bytes, or the copy of
\* the record
DbStore(w) ==
    /\ db_writer[w].pc = "store"
    /\ db_buffer' = [db_buffer EXCEPT ![db_writer[w].idx] =
                       StoreFields(@, DbRecordOf(w),
                                   IF db_avx2 THEN DbFirst32
                                   ELSE DbFirst32 \cup DbBehind32)]
    /\ db_writer' = [db_writer EXCEPT ![w].pc = "publish"]
    /\ UNCHANGED <<db_avx2, db_write_idx, db_read_idx, db_reader, db_written,
                   db_returned>>
    /\ UNCHANGED dbOthers

\* ring.write, lines 74-76: store write_idx, return true
DbPublish(w) ==
    /\ db_writer[w].pc = "publish"
    /\ db_write_idx' = (db_writer[w].idx + 1) % DbCapacity
    /\ db_writer' = [db_writer EXCEPT ![w].pc = "idle", ![w].ret = Some(TRUE)]
    /\ db_written' = Append(db_written, DbRecordOf(w))
    /\ UNCHANGED <<db_avx2, db_buffer, db_read_idx, db_reader, db_returned>>
    /\ UNCHANGED dbOthers

\* db.read -> ring.read, lines 83-86: load read_idx, None when empty
DbReadCheck(r) ==
    /\ db_reader[r].pc = "idle"
    /\ db_reader[r].reads < DbMaxReads
    /\ LET idx == db_read_idx
       IN  IF idx = db_write_idx
           THEN db_reader' = [db_reader EXCEPT ![r].reads = @ + 1]
           ELSE db_reader' = [db_reader EXCEPT ![r].pc = "advance", ![r].idx = idx,
                                               ![r].reads = @ + 1]
    /\ UNCHANGED <<db_avx2, db_buffer, db_write_idx, db_read_idx, db_writer,
                   db_written, db_returned>>
    /\ UNCHANGED dbOthers

\* ring.read, lines 89-94: store read_idx, return the reference
DbReadAdvance(r) ==
    /\ db_reader[r].pc = "advance"
    /\ db_read_idx' = (db_reader[r].idx + 1) % DbCapacity
    /\ db_reader' = [db_reader EXCEPT ![r].pc = "deref"]
    /\ UNCHANGED <<db_avx2, db_buffer, db_write_idx, db_writer, db_written,
                   db_returned>>
    /\ UNCHANGED dbOthers

\* db.read, line 45: *r, the copy of the slot the reference points to
DbDeref(r) ==
    /\ db_reader[r].pc = "deref"
    /\ db_returned' = Append(db_returned, db_buffer[db_reader[r].idx])
    /\ db_reader' = [db_reader EXCEPT ![r].pc = "idle"]
    /\ UNCHANGED <<db_avx2, db_buffer, db_write_idx, db_read_idx, db_writer,
                   db_written>>
    /\ UNCHANGED dbOthers

DbWriterStep == \E w \in Writers : DbWriteCheck(w) \/ DbStore(w) \/ DbPublish(w)
DbReaderStep == \E r \in Readers : DbReadCheck(r) \/ DbReadAdvance(r) \/ DbDeref(r)

(***************************************************************************)
(* The layout of the record structs: #[repr(C, align(64))] places the      *)
(* fields in declaration order, each at the next multiple of its own       *)
(* alignment, and rounds the size up to the alignment of the struct.       *)
(***************************************************************************)
Field(name, size, align) == [name |-> name, size |-> size, align |-> align]

\* struct Record (src/core/record.rs): u64, u32, Price(i64), u32,
\* Timestamp(u64), u8, [u8; 31]
RecordFields ==
    << Field("id", 8, 8), Field("symbol_id", 4, 4), Field("price", 8, 8),
       Field("quantity", 4, 4), Field("timestamp", 8, 8), Field("flags", 1, 1),
       Field("_padding", 31, 1) >>

\* struct MarketDataRecord (src5/src/core/record.rs)
MarketDataRecordFields ==
    << Field("token", 8, 8), Field("bid_price", 8, 8), Field("ask_price", 8, 8),
       Field("bid_size", 4, 4), Field("ask_size", 4, 4), Field("last_price", 8, 8),
       Field("last_size", 4, 4), Field("sequence_num", 8, 8),
       Field("timestamp", 8, 8), Field("flags", 1, 1), Field("_padding", 3, 1) >>

Structs == {"Record", "MarketDataRecord"}
FieldsOf(struct) == IF struct = "Record" THEN RecordFields ELSE MarketDataRecordFields

\* align(64)
StructAlign == 64

\* the next multiple of align at or above offset
AlignUp(offset, align) == ((offset + align - 1) \div align) * align

\* the offset a field gets when the fields before it end at `end`
FieldOffset(end, field) == AlignUp(end, field.align)

\* the end of the first n fields of a struct
RECURSIVE EndOfFields(_, _)
EndOfFields(fields, n) ==
    IF n = 0 THEN 0
    ELSE FieldOffset(EndOfFields(fields, n - 1), fields[n]) + fields[n].size

\* the names of the fields that begin in the first 32 bytes of the struct
FieldsInFirst32(fields) ==
    {fields[n].name : n \in {m \in 1..Len(fields) :
                                FieldOffset(EndOfFields(fields, m - 1), fields[m]) < 32}}

LyNew ==
    /\ ly_next = [t \in Structs |-> 0]
    /\ ly_end = [t \in Structs |-> 0]
    /\ ly_size = [t \in Structs |-> None]

\* place the next declared field of the struct
LyPlaceField(t) ==
    /\ ly_next[t] < Len(FieldsOf(t))
    /\ LET field == FieldsOf(t)[ly_next[t] + 1]
       IN  ly_end' = [ly_end EXCEPT ![t] = FieldOffset(@, field) + field.size]
    /\ ly_next' = [ly_next EXCEPT ![t] = @ + 1]
    /\ UNCHANGED ly_size
    /\ UNCHANGED lyOthers

\* close the struct: size_of is the end rounded up to the alignment
LyClose(t) ==
    /\ ly_next[t] = Len(FieldsOf(t))
    /\ ly_size[t] = None
    /\ ly_size' = [ly_size EXCEPT ![t] = Some(AlignUp(ly_end[t], StructAlign))]
    /\ UNCHANGED <<ly_next, ly_end>>
    /\ UNCHANGED lyOthers

(***************************************************************************)
(* src: engine Database (src/engine/db.rs) over one RingBuffer per symbol  *)
(* (src/memory/ring_buffer.rs), one call at a time.                        *)
(***************************************************************************)
EngMaxCapacity == 3
EngMaxWrites == 4
Symbols == {1, 2}
EngPrices == {1, 2}
EngClock == {1000}

\* Price::DECIMALS
PriceDecimals == 8
\* Price::MULTIPLIER
PriceMultiplier == 10 ^ PriceDecimals

\* Price::new(value): the fixed-point raw value
PriceNew(value) == value * PriceMultiplier

\* Price::as_f64
PriceAsF64(raw) == raw \div PriceMultiplier

\* Record::new
RecordNew(id, symbol_id, price, quantity, timestamp, flags) ==
    [id |-> id, symbol_id |-> symbol_id, price |-> PriceNew(price),
     quantity |-> quantity, timestamp |-> timestamp, flags |-> flags]

RecordNames == {"id", "symbol_id", "price", "quantity", "timestamp", "flags"}
EnUninitSlot == [f \in RecordNames |-> Uninit]

\* usize::next_power_of_two
RECURSIVE PowerOfTwoFrom(_, _)
PowerOfTwoFrom(n, p) == IF p >= n THEN p ELSE PowerOfTwoFrom(n, 2 * p)
NextPowerOfTwo(n) == PowerOfTwoFrom(n, 1)

\* a & b on unsigned integers
RECURSIVE BitAnd(_, _)
BitAnd(a, b) ==
    IF a = 0 \/ b = 0 THEN 0
    ELSE (a % 2) * (b % 2) + 2 * BitAnd(a \div 2, b \div 2)

\* RingBuffer::new(capacity)
EnRingNew(capacity) ==
    LET rounded == NextPowerOfTwo(capacity)
    IN  [buffer |-> [i \in 0..(rounded - 1) |-> EnUninitSlot],
         capacity_mask |-> rounded - 1,
         write_idx |-> 0,
         read_idx |-> 0]

\* RingBuffer::is_full
EnRingIsFull(ring) == BitAnd(ring.write_idx + 1, ring.capacity_mask) = ring.read_idx

\* RingBuffer::is_empty
EnRingIsEmpty(ring) == ring.read_idx = ring.write_idx

\* a full test that never reports full
EnRingNeverFull(ring, next_idx) == FALSE

\* RingBuffer::write, line 48: next_idx == read_idx
EnRingWriteFull(ring, next_idx) == next_idx = ring.read_idx

\* RingBuffer::write: with AVX2 one 32-byte streaming store, else the copy
EnRingWrite(ring, record, avx2) ==
    LET idx == ring.write_idx
        next_idx == BitAnd(idx + 1, ring.capacity_mask)
    IN  IF EnRingWriteFull(ring, next_idx)
        THEN [ring |-> ring, ret |-> FALSE]
        ELSE [ring |-> [ring EXCEPT
                          !.buffer[idx] =
                              StoreFields(@, record,
                                          IF avx2 THEN FieldsInFirst32(RecordFields)
                                          ELSE RecordNames),
                          !.write_idx = next_idx],
              ret |-> TRUE]

\* RingBuffer::read
EnRingRead(ring) ==
    LET idx == ring.read_idx
    IN  IF idx = ring.write_idx
        THEN [ring |-> ring, ret |-> None]
        ELSE [ring |-> [ring EXCEPT !.read_idx = BitAnd(idx + 1, ring.capacity_mask)],
              ret |-> Some(ring.buffer[idx])]

\* No call has been made on the database yet.
EnNoCall == [op |-> "none", symbol_id |-> 0, written |-> None, record |-> None]

\* Database::new(config)
EnNew(capacity, avx2) ==
    /\ en_avx2 = avx2
    /\ en_capacity = capacity
    /\ en_buffers = [symbol_id \in Symbols |-> None]
    /\ en_next_id = 0
    /\ en_latest = [symbol_id \in Symbols |-> None]
    /\ en_held = [symbol_id \in Symbols |-> 0]
    /\ en_last = EnNoCall

\* Database::write(symbol_id, price, quantity), at clock reading `now`
DatabaseWrite(symbol_id, price, quantity, now) ==
    /\ en_next_id < EngMaxWrites
    /\ LET id == en_next_id
           record == RecordNew(id, symbol_id, price, quantity, now, 0)
           buffer == IF en_buffers[symbol_id] = None
                     THEN EnRingNew(en_capacity)
                     ELSE Unwrap(en_buffers[symbol_id])
           w == EnRingWrite(buffer, record, en_avx2)
       IN  /\ en_next_id' = id + 1
           /\ en_buffers' = [en_buffers EXCEPT ![symbol_id] = Some(w.ring)]
           /\ en_latest' = IF w.ret
                           THEN [en_latest EXCEPT ![symbol_id] = Some(record)]
                           ELSE en_latest
           /\ en_held' = IF w.ret
                         THEN [en_held EXCEPT ![symbol_id] = @ + 1]
                         ELSE en_held
           /\ en_last' = [EnNoCall EXCEPT !.op = "write", !.symbol_id = symbol_id,
                                          !.written = Some(w.ret)]
    /\ UNCHANGED <<en_avx2, en_capacity>>
    /\ UNCHANGED enOthers

\* Database::read_latest(symbol_id)
DatabaseReadLatest(symbol_id) ==
    /\ LET call == [EnNoCall EXCEPT !.op = "read_latest", !.symbol_id = symbol_id]
       IN  IF en_buffers[symbol_id] = None
           THEN /\ en_last' = call
                /\ UNCHANGED <<en_buffers, en_held>>
           ELSE LET r == EnRingRead(Unwrap(en_buffers[symbol_id]))
                IN  /\ en_buffers' = [en_buffers EXCEPT ![symbol_id] = Some(r.ring)]
                    /\ en_held' = IF r.ret # None
                                  THEN [en_held EXCEPT ![symbol_id] = @ - 1]
                                  ELSE en_held
                    /\ en_last' = [call EXCEPT !.record = r.ret]
    /\ UNCHANGED <<en_avx2, en_capacity, en_next_id, en_latest>>
    /\ UNCHANGED enOthers

(***************************************************************************)
(* src: storage Table.  A record is a map from field name to bytes; each   *)
(* field has its own LowLatencyMpmcRing.  A ring operation (is_full,       *)
(* is_empty, try_enqueue, try_dequeue) is one step here; the steps inside  *)
(* them are those of the mp_ variables.  The bytes of every field of one   *)
(* write_record_ref call are the number of that call.                      *)
(***************************************************************************)
\* FieldConfig.ring_capacity of every field
TbCapacity == 2
\* Number of write_record_ref calls made in a run.
TbMaxWrites == 3

TbFields == {"price", "quantity"}
TbWriters == {"w1", "w2"}
TbReaders == {"r1"}

\* The orders in which record.iter() can visit the fields of a record: the
\* record is a HashMap the caller built, its order is that of its own hasher
TbIterOrders == {<<"price", "quantity">>, <<"quantity", "price">>}

\* field_buffers.iter(): the order of the table's own DashMap, one for the table
TbTableOrder == <<"price", "quantity">>

TbIdleWriter ==
    [pc |-> "idle", tag |-> 0, order |-> TbTableOrder, i |-> 1, enqueued |-> {},
     ret |-> None]

TbNoRecord == [f \in TbFields |-> 0]

TbIdleReader == [pc |-> "idle", i |-> 1, out |-> TbNoRecord, ret |-> None]

\* Table::new
TbNew ==
    /\ tb_rings = [f \in TbFields |-> <<>>]
    /\ tb_record_count = 0
    /\ tb_next_tag = 1
    /\ tb_writer = [w \in TbWriters |-> TbIdleWriter]
    /\ tb_reader = [r \in TbReaders |-> TbIdleReader]

\* LowLatencyMpmcRing::is_full
MpmcIsFull(items, capacity) == Len(items) >= capacity

\* LowLatencyMpmcRing::is_empty
MpmcIsEmpty(items) == Len(items) = 0

\* write_record_ref, lines 56-58: record_count >= capacity()
TbWriteStart(w, order) ==
    /\ tb_writer[w].pc = "idle"
    /\ tb_next_tag <= TbMaxWrites
    /\ tb_next_tag' = tb_next_tag + 1
    /\ IF tb_record_count >= TbCapacity
       THEN tb_writer' = [tb_writer EXCEPT ![w] =
                            [TbIdleWriter EXCEPT !.tag = tb_next_tag, !.order = order,
                                                 !.ret = Some(FALSE)]]
       ELSE tb_writer' = [tb_writer EXCEPT ![w] =
                            [TbIdleWriter EXCEPT !.pc = "precheck", !.tag = tb_next_tag,
                                                 !.order = order]]
    /\ UNCHANGED <<tb_rings, tb_record_count, tb_reader>>
    /\ UNCHANGED tbOthers

\* write_record_ref, lines 61-67: is_full of the ring of the next field
TbWritePrecheck(w) ==
    /\ tb_writer[w].pc = "precheck"
    /\ LET t == tb_writer[w]
           field == t.order[t.i]
       IN  IF MpmcIsFull(tb_rings[field], TbCapacity)
           THEN tb_writer' = [tb_writer EXCEPT ![w].pc = "idle", ![w].ret = Some(FALSE)]
           ELSE IF t.i < Len(t.order)
           THEN tb_writer' = [tb_writer EXCEPT ![w].i = t.i + 1]
           ELSE tb_writer' = [tb_writer EXCEPT ![w].pc = "enqueue", ![w].i = 1]
    /\ UNCHANGED <<tb_rings, tb_record_count, tb_next_tag, tb_reader>>
    /\ UNCHANGED tbOthers

\* write_record_ref, lines 70-87: box the bytes of the next field, try_enqueue
TbWriteEnqueue(w) ==
    /\ tb_writer[w].pc = "enqueue"
    /\ LET t == tb_writer[w]
           field == t.order[t.i]
       IN  IF MpmcIsFull(tb_rings[field], TbCapacity)
           THEN /\ tb_writer' = [tb_writer EXCEPT ![w].pc = "idle", ![w].ret = Some(FALSE)]
                /\ UNCHANGED tb_rings
           ELSE /\ tb_rings' = [tb_rings EXCEPT ![field] = Append(@, t.tag)]
                /\ tb_writer' = [tb_writer EXCEPT
                                    ![w].enqueued = @ \cup {field},
                                    ![w].i = t.i + 1,
                                    ![w].pc = IF t.i < Len(t.order)
                                              THEN "enqueue" ELSE "count"]
    /\ UNCHANGED <<tb_record_count, tb_next_tag, tb_reader>>
    /\ UNCHANGED tbOthers

\* write_record_ref, lines 89-90: record_count.fetch_add(1), return true
TbWriteCount(w) ==
    /\ tb_writer[w].pc = "count"
    /\ tb_record_count' = tb_record_count + 1
    /\ tb_writer' = [tb_writer EXCEPT ![w].pc = "idle", ![w].ret = Some(TRUE)]
    /\ UNCHANGED <<tb_rings, tb_next_tag, tb_reader>>
    /\ UNCHANGED tbOthers

\* read_record_ref, lines 95-98: None when record_count is 0
TbReadStart(r) ==
    /\ tb_reader[r].pc = "idle"
    /\ IF tb_record_count = 0
       THEN tb_reader' = [tb_reader EXCEPT ![r] = TbIdleReader]
       ELSE tb_reader' = [tb_reader EXCEPT ![r] = [TbIdleReader EXCEPT !.pc = "precheck"]]
    /\ UNCHANGED <<tb_rings, tb_record_count, tb_next_tag, tb_writer>>
    /\ UNCHANGED tbOthers

\* read_record_ref, lines 103-107: is_empty of the ring of the next field
TbReadPrecheck(r) ==
    /\ tb_reader[r].pc = "precheck"
    /\ LET t == tb_reader[r]
           field == TbTableOrder[t.i]
       IN  IF MpmcIsEmpty(tb_rings[field])
           THEN tb_reader' = [tb_reader EXCEPT ![r].pc = "idle"]
           ELSE IF t.i < Len(TbTableOrder)
           THEN tb_reader' = [tb_reader EXCEPT ![r].i = t.i + 1]
           ELSE tb_reader' = [tb_reader EXCEPT ![r].pc = "dequeue", ![r].i = 1]
    /\ UNCHANGED <<tb_rings, tb_record_count, tb_next_tag, tb_writer>>
    /\ UNCHANGED tbOthers

\* read_record_ref, lines 110-121: dequeue the next field into the map
TbReadDequeue(r) ==
    /\ tb_reader[r].pc = "dequeue"
    /\ LET t == tb_reader[r]
           field == TbTableOrder[t.i]
       IN  IF MpmcIsEmpty(tb_rings[field])
           THEN /\ tb_reader' = [tb_reader EXCEPT ![r].pc = "idle"]
                /\ UNCHANGED tb_rings
           ELSE /\ tb_rings' = [tb_rings EXCEPT ![field] = Tail(@)]
                /\ tb_reader' = [tb_reader EXCEPT
                                    ![r].out[field] = Head(tb_rings[field]),
                                    ![r].i = t.i + 1,
                                    ![r].pc = IF t.i < Len(TbTableOrder)
                                              THEN "dequeue" ELSE "count"]
    /\ UNCHANGED <<tb_record_count, tb_next_tag, tb_writer>>
    /\ UNCHANGED tbOthers

\* read_record_ref, lines 123-124: record_count.fetch_sub(1), return Some(out)
TbReadCount(r) ==
    /\ tb_reader[r].pc = "count"
    /\ tb_record_count' = tb_record_count - 1
    /\ tb_reader' = [tb_reader EXCEPT ![r].pc = "idle", ![r].ret = Some(tb_reader[r].out)]
    /\ UNCHANGED <<tb_rings, tb_next_tag, tb_writer>>
    /\ UNCHANGED tbOthers

TbWriterStep ==
    \E w \in TbWriters :
        \/ \E order \in TbIterOrders : TbWriteStart(w, order)
        \/ TbWritePrecheck(w)
        \/ TbWriteEnqueue(w)
        \/ TbWriteCount(w)

TbReaderStep ==
    \E r \in TbReaders :
        TbReadStart(r) \/ TbReadPrecheck(r) \/ TbReadDequeue(r) \/ TbReadCount(r)

(***************************************************************************)
(* src: LowLatencyMpmcRing, one step per atomic operation.  An item is the *)
(* number of the try_enqueue call that carries it; 0 in a slot is a value  *)
(* never written.                                                          *)
(***************************************************************************)
\* Number of try_enqueue calls made in a run.
MpMaxItems == 3
\* The capacities run from 2^0 to 2^MpMaxExp: `capacity.is_power_of_two()`.
MpMaxExp == 1

MpCapacities == {2 ^ e : e \in 0..MpMaxExp}
MpProducers == {"p1", "p2"}
MpConsumers == {"c1", "c2"}
MpItems == 1..MpMaxItems

MpIdleProducer == [pc |-> "idle", seq |-> 0, slot_seq |-> 0, item |-> 0, ret |-> None]
MpIdleConsumer == [pc |-> "idle", seq |-> 0, slot_seq |-> 0, out |-> 0, ret |-> None]

\* LowLatencyMpmcRing::new: slot i starts with sequence i
MpNew(capacity) ==
    /\ mp_capacity = capacity
    /\ mp_sequence = [i \in 0..(capacity - 1) |-> i]
    /\ mp_value = [i \in 0..(capacity - 1) |-> 0]
    /\ mp_producer_index = 0
    /\ mp_consumer_index = 0
    /\ mp_prod = [p \in MpProducers |-> MpIdleProducer]
    /\ mp_cons = [c \in MpConsumers |-> MpIdleConsumer]
    /\ mp_next_item = 1
    /\ mp_accepted = {}
    /\ mp_returned = [i \in MpItems |-> 0]
    /\ mp_overwritten = {}

\* `seq & self.mask`, mask = capacity - 1, capacity a power of two
MpIdx(seq, capacity) == seq % capacity

\* try_enqueue is called with a new item
MpEnqCall(p) ==
    /\ mp_prod[p].pc = "idle"
    /\ mp_next_item <= MpMaxItems
    /\ mp_next_item' = mp_next_item + 1
    /\ mp_prod' = [mp_prod EXCEPT ![p] =
                      [MpIdleProducer EXCEPT !.pc = "index", !.item = mp_next_item]]
    /\ UNCHANGED <<mp_capacity, mp_sequence, mp_value, mp_producer_index,
                   mp_consumer_index, mp_cons, mp_accepted, mp_returned,
                   mp_overwritten>>
    /\ UNCHANGED mpOthers

\* try_enqueue, line 65: seq = producer_index.load(Acquire)
MpEnqLoadIndex(p) ==
    /\ mp_prod[p].pc = "index"
    /\ mp_prod' = [mp_prod EXCEPT ![p].pc = "slot", ![p].seq = mp_producer_index]
    /\ UNCHANGED <<mp_capacity, mp_sequence, mp_value, mp_producer_index,
                   mp_consumer_index, mp_cons, mp_next_item, mp_accepted,
                   mp_returned, mp_overwritten>>
    /\ UNCHANGED mpOthers

\* try_enqueue, lines 66-72 and 85-95: slot_seq = slot.sequence.load(Acquire)
\* and the three-way branch on it
MpEnqLoadSlot(p) ==
    /\ mp_prod[p].pc = "slot"
    /\ LET t == mp_prod[p]
           slot_seq == mp_sequence[MpIdx(t.seq, mp_capacity)]
       IN  mp_prod' = [mp_prod EXCEPT
                          ![p].slot_seq = slot_seq,
                          ![p].pc = IF slot_seq = t.seq THEN "cas"
                                    ELSE IF slot_seq < t.seq THEN "idle"
                                    ELSE "index",
                          ![p].ret = IF slot_seq < t.seq THEN Some(FALSE) ELSE None]
    /\ UNCHANGED <<mp_capacity, mp_sequence, mp_value, mp_producer_index,
                   mp_consumer_index, mp_cons, mp_next_item, mp_accepted,
                   mp_returned, mp_overwritten>>
    /\ UNCHANGED mpOthers

\* try_enqueue, lines 73-76: producer_index.compare_exchange_weak(seq, seq + 1);
\* the weak exchange may also fail when the value is the expected one
MpEnqCas(p, spurious) ==
    /\ mp_prod[p].pc = "cas"
    /\ IF mp_producer_index = mp_prod[p].seq /\ ~spurious
       THEN /\ mp_producer_index' = mp_producer_index + 1
            /\ mp_prod' = [mp_prod EXCEPT ![p].pc = "value"]
       ELSE /\ mp_prod' = [mp_prod EXCEPT ![p].pc = "index"]
            /\ UNCHANGED mp_producer_index
    /\ UNCHANGED <<mp_capacity, mp_sequence, mp_value, mp_consumer_index, mp_cons,
                   mp_next_item, mp_accepted, mp_returned, mp_overwritten>>
    /\ UNCHANGED mpOthers

\* try_enqueue, lines 78-80: (*slot.value.get()).write(item)
MpEnqWrite(p) ==
    /\ mp_prod[p].pc = "value"
    /\ LET t == mp_prod[p]
           idx == MpIdx(t.seq, mp_capacity)
           old == mp_value[idx]
       IN  /\ mp_value' = [mp_value EXCEPT ![idx] = t.item]
           /\ mp_overwritten' = IF old # 0 /\ mp_returned[old] = 0
                                THEN mp_overwritten \cup {old}
                                ELSE mp_overwritten
    /\ mp_prod' = [mp_prod EXCEPT ![p].pc = "store"]
    /\ UNCHANGED <<mp_capacity, mp_sequence, mp_producer_index, mp_consumer_index,
                   mp_cons, mp_next_item, mp_accepted, mp_returned>>
    /\ UNCHANGED mpOthers

\* try_enqueue, lines 81-83: slot.sequence.store(seq + 1, Release); return true
MpEnqStore(p) ==
    /\ mp_prod[p].pc = "store"
    /\ LET t == mp_prod[p]
       IN  /\ mp_sequence' = [mp_sequence EXCEPT ![MpIdx(t.seq, mp_capacity)] = t.seq + 1]
           /\ mp_accepted' = mp_accepted \cup {t.item}
    /\ mp_prod' = [mp_prod EXCEPT ![p].pc = "idle", ![p].ret = Some(TRUE)]
    /\ UNCHANGED <<mp_capacity, mp_value, mp_producer_index, mp_consumer_index,
                   mp_cons, mp_next_item, mp_returned, mp_overwritten>>
    /\ UNCHANGED mpOthers

\* try_dequeue is called
MpDeqCall(c) ==
    /\ mp_cons[c].pc = "idle"
    /\ mp_cons' = [mp_cons EXCEPT ![c] = [MpIdleConsumer EXCEPT !.pc = "index"]]
    /\ UNCHANGED <<mp_capacity, mp_sequence, mp_value, mp_producer_index,
                   mp_consumer_index, mp_prod, mp_next_item, mp_accepted,
                   mp_returned, mp_overwritten>>
    /\ UNCHANGED mpOthers

\* try_dequeue, line 103: seq = consumer_index.load(Acquire)
MpDeqLoadIndex(c) ==
    /\ mp_cons[c].pc = "index"
    /\ mp_cons' = [mp_cons EXCEPT ![c].pc = "slot", ![c].seq = mp_consumer_index]
    /\ UNCHANGED <<mp_capacity, mp_sequence, mp_value, mp_producer_index,
                   mp_consumer_index, mp_prod, mp_next_item, mp_accepted,
                   mp_returned, mp_overwritten>>
    /\ UNCHANGED mpOthers

\* try_dequeue, lines 104-110 and 123-133: slot_seq = slot.sequence.load(Acquire)
\* and the three-way branch on it
MpDeqLoadSlot(c) ==
    /\ mp_cons[c].pc = "slot"
    /\ LET t == mp_cons[c]
           slot_seq == mp_sequence[MpIdx(t.seq, mp_capacity)]
       IN  mp_cons' = [mp_cons EXCEPT
                          ![c].slot_seq = slot_seq,
                          ![c].pc = IF slot_seq = t.seq + 1 THEN "cas"
                                    ELSE IF slot_seq < t.seq + 1 THEN "idle"
                                    ELSE "index"]
    /\ UNCHANGED <<mp_capacity, mp_sequence, mp_value, mp_producer_index,
                   mp_consumer_index, mp_prod, mp_next_item, mp_accepted,
                   mp_returned, mp_overwritten>>
    /\ UNCHANGED mpOthers

\* try_dequeue, lines 111-114: consumer_index.compare_exchange_weak(seq, seq + 1)
MpDeqCas(c, spurious) ==
    /\ mp_cons[c].pc = "cas"
    /\ IF mp_consumer_index = mp_cons[c].seq /\ ~spurious
       THEN /\ mp_consumer_index' = mp_consumer_index + 1
            /\ mp_cons' = [mp_cons EXCEPT ![c].pc = "value"]
       ELSE /\ mp_cons' = [mp_cons EXCEPT ![c].pc = "index"]
            /\ UNCHANGED mp_consumer_index
    /\ UNCHANGED <<mp_capacity, mp_sequence, mp_value, mp_producer_index, mp_prod,
                   mp_next_item, mp_accepted, mp_returned, mp_overwritten>>
    /\ UNCHANGED mpOthers

\* try_dequeue, lines 116-118: val = (*slot.value.get()).assume_init_read();
\* the bits stay in the slot, the item is now the caller's
MpDeqRead(c) ==
    /\ mp_cons[c].pc = "value"
    /\ LET val == mp_value[MpIdx(mp_cons[c].seq, mp_capacity)]
       IN  /\ mp_cons' = [mp_cons EXCEPT ![c].pc = "store", ![c].out = val]
           /\ mp_returned' = IF val = 0 THEN mp_returned
                             ELSE [mp_returned EXCEPT ![val] = @ + 1]
    /\ UNCHANGED <<mp_capacity, mp_sequence, mp_value, mp_producer_index,
                   mp_consumer_index, mp_prod, mp_next_item, mp_accepted,
                   mp_overwritten>>
    /\ UNCHANGED mpOthers

\* try_dequeue, lines 119-121: slot.sequence.store(seq + capacity, Release);
\* return Some(val)
MpDeqStore(c) ==
    /\ mp_cons[c].pc = "store"
    /\ LET t == mp_cons[c]
       IN  /\ mp_sequence' = [mp_sequence EXCEPT
                                 ![MpIdx(t.seq, mp_capacity)] = t.seq + mp_capacity]
           /\ mp_cons' = [mp_cons EXCEPT ![c].pc = "idle", ![c].ret = Some(t.out)]
    /\ UNCHANGED <<mp_capacity, mp_value, mp_producer_index, mp_consumer_index,
                   mp_prod, mp_next_item, mp_accepted, mp_returned, mp_overwritten>>
    /\ UNCHANGED mpOthers

MpProducerStep ==
    \E p \in MpProducers :
        \/ MpEnqCall(p)
        \/ MpEnqLoadIndex(p)
        \/ MpEnqLoadSlot(p)
        \/ \E spurious \in BOOLEAN : MpEnqCas(p, spurious)
        \/ MpEnqWrite(p)
        \/ MpEnqStore(p)

MpConsumerStep ==
    \E c \in MpConsumers :
        \/ MpDeqCall(c)
        \/ MpDeqLoadIndex(c)
        \/ MpDeqLoadSlot(c)
        \/ \E spurious \in BOOLEAN : MpDeqCas(c, spurious)
        \/ MpDeqRead(c)
        \/ MpDeqStore(c)

(***************************************************************************)
(* src2: InstrumentBufferManager, one call at a time.  Its tokens are u32, *)
(* its buffer sets are three ZeroAllocRingBuffers with no sequence gate,   *)
(* and index() hands out the Arc of its directory, on which a caller can   *)
(* register a token without the manager seeing it.                         *)
(***************************************************************************)
\* records handed to the manager: one that validates, one that does not
HdRecords == {r \in Records2 : r.sequence_num = 1 /\ r.bid_price \in {0, 100}}

\* ZeroAllocRingBuffer::new, as a value
ZeroAllocNew(capacity) ==
    [capacity |-> capacity, write_idx |-> 0, read_idx |-> 0,
     buffer |-> [i \in 0..(capacity - 1) |-> UninitSlot2]]

\* ZeroAllocRingBuffer::write, run alone: the ring after the call and what it
\* returns; the AVX2 path stores the first 32 bytes of the record only
ZeroAllocWrite(ring, record, avx2) ==
    LET idx == ring.write_idx
        next_idx == (idx + 1) % ring.capacity
        copied == IF avx2 /\ SizeBytes2 >= 32 THEN First32 ELSE First32 \cup Behind32
    IN  IF next_idx = ring.read_idx \/ ~Validate2(record)
        THEN [ring |-> ring, ret |-> FALSE]
        ELSE [ring |-> [ring EXCEPT !.buffer[idx] = StoreFields(@, record, copied),
                                    !.write_idx = next_idx],
              ret |-> TRUE]

\* ZeroAllocRingBuffer::read, run alone
ZeroAllocRead(ring) ==
    IF ring.read_idx = ring.write_idx
    THEN [ring |-> ring, ret |-> None]
    ELSE [ring |-> [ring EXCEPT !.read_idx = (ring.read_idx + 1) % ring.capacity],
          ret |-> Some(ring.buffer[ring.read_idx])]

\* Number of manager write calls made in a run.
HdMaxWrites == 2
\* l1/l2/ref_buffer_size of the InstrumentBufferConfig the manager is given
HdRingSize == 2
HdConfig == [k \in BufferType |-> HdRingSize]

\* src2 InstrumentBuffer::new, as a value
HdInstrumentBufferNew(token, config) ==
    [token |-> token, rings |-> [k \in BufferType |-> ZeroAllocNew(config[k])]]

\* No call has been made yet.
HdNoCall ==
    [op |-> "none", token |-> 0, written |-> None, record |-> None, handle |-> None]

\* InstrumentBufferManager::new(capacity, config)
HdNew(capacity, avx2) ==
    /\ hd_avx2 = avx2
    /\ hd_index = InstrumentIndexNew(capacity)
    /\ hd_buffers = [i \in 0..(capacity - 1) |-> None]
    /\ hd_last = HdNoCall
    /\ hd_panicked = FALSE
    /\ hd_direct = {}
    /\ hd_writes = 0

\* `self.buffers[idx]`: the index is checked against the length of the slice
HdInBounds(idx) == idx \in DOMAIN hd_buffers

\* a check of the slot that finds a buffer set in every slot
HdIsSomeAlways(slot) == TRUE

\* register_instrument, line 101: self.buffers[idx].is_some()
HdIsSome(slot) == slot # None

\* manager.index().register_instrument(token): the directory, not the manager
HdIndexRegister(token) ==
    /\ ~hd_panicked
    /\ LET r == IndexRegisterInstrument(hd_index, token)
       IN  /\ hd_index' = r.dir
           /\ hd_last' = [HdNoCall EXCEPT !.op = "direct", !.token = token,
                                          !.handle = r.ret]
           /\ hd_direct' = IF r.ret # None /\ token \notin DOMAIN hd_index.token_map
                           THEN hd_direct \cup {token}
                           ELSE hd_direct
    /\ UNCHANGED <<hd_avx2, hd_buffers, hd_panicked, hd_writes>>
    /\ UNCHANGED hdOthers

\* InstrumentBufferManager::register_instrument(token)
HdRegisterInstrument(token) ==
    /\ ~hd_panicked
    /\ LET call == [HdNoCall EXCEPT !.op = "register", !.token = token]
           r == IndexRegisterInstrument(hd_index, token)
       IN  /\ hd_index' = r.dir
           /\ IF r.ret = None
              THEN /\ hd_last' = call
                   /\ UNCHANGED <<hd_buffers, hd_panicked>>
              ELSE LET idx == Unwrap(r.ret)
                   IN  IF ~HdInBounds(idx)
                       THEN /\ hd_panicked' = TRUE
                            /\ hd_last' = call
                            /\ UNCHANGED hd_buffers
                       ELSE IF HdIsSome(hd_buffers[idx])
                       THEN /\ hd_last' = [call EXCEPT !.handle = r.ret]
                            /\ UNCHANGED <<hd_buffers, hd_panicked>>
                       ELSE /\ hd_buffers' = [hd_buffers EXCEPT ![idx] =
                                  Some(HdInstrumentBufferNew(token, HdConfig))]
                            /\ hd_last' = [call EXCEPT !.handle = r.ret]
                            /\ UNCHANGED hd_panicked
    /\ UNCHANGED <<hd_avx2, hd_direct, hd_writes>>
    /\ UNCHANGED hdOthers

\* get_instrument_buffer: the slot of the token, found: None, Some(idx) of a
\* slot that may be empty, or out of bounds
HdGetInstrumentBuffer(token) == IndexGetBufferIndex(hd_index, token)

\* InstrumentBufferManager::write(token, record, buffer_type)
HdWrite(token, record, buffer_type) ==
    /\ ~hd_panicked
    /\ hd_writes < HdMaxWrites
    /\ hd_writes' = hd_writes + 1
    /\ LET call == [HdNoCall EXCEPT !.op = "write", !.token = token]
           found == HdGetInstrumentBuffer(token)
       IN  IF found = None
           THEN /\ hd_last' = [call EXCEPT !.written = Some(FALSE)]
                /\ UNCHANGED <<hd_buffers, hd_panicked>>
           ELSE IF ~HdInBounds(Unwrap(found))
           THEN /\ hd_panicked' = TRUE
                /\ hd_last' = call
                /\ UNCHANGED hd_buffers
           ELSE IF hd_buffers[Unwrap(found)] = None
           THEN /\ hd_last' = [call EXCEPT !.written = Some(FALSE)]
                /\ UNCHANGED <<hd_buffers, hd_panicked>>
           ELSE LET idx == Unwrap(found)
                    set == Unwrap(hd_buffers[idx])
                    w == ZeroAllocWrite(set.rings[buffer_type], record, hd_avx2)
                IN  /\ hd_buffers' = [hd_buffers EXCEPT ![idx] =
                                         Some([set EXCEPT !.rings[buffer_type] = w.ring])]
                    /\ hd_last' = [call EXCEPT !.written = Some(w.ret)]
                    /\ UNCHANGED hd_panicked
    /\ UNCHANGED <<hd_avx2, hd_index, hd_direct>>
    /\ UNCHANGED hdOthers

\* InstrumentBufferManager::read(token, buffer_type)
HdRead(token, buffer_type) ==
    /\ ~hd_panicked
    /\ LET call == [HdNoCall EXCEPT !.op = "read", !.token = token]
           found == HdGetInstrumentBuffer(token)
       IN  IF found = None
           THEN /\ hd_last' = call
                /\ UNCHANGED <<hd_buffers, hd_panicked>>
           ELSE IF ~HdInBounds(Unwrap(found))
           THEN /\ hd_panicked' = TRUE
                /\ hd_last' = call
                /\ UNCHANGED hd_buffers
           ELSE IF hd_buffers[Unwrap(found)] = None
           THEN /\ hd_last' = call
                /\ UNCHANGED <<hd_buffers, hd_panicked>>
           ELSE LET idx == Unwrap(found)
                    set == Unwrap(hd_buffers[idx])
                    r == ZeroAllocRead(set.rings[buffer_type])
                IN  /\ hd_buffers' = [hd_buffers EXCEPT ![idx] =
                                         Some([set EXCEPT !.rings[buffer_type] = r.ring])]
                    /\ hd_last' = [call EXCEPT !.record = r.ret]
                    /\ UNCHANGED hd_panicked
    /\ UNCHANGED <<hd_avx2, hd_index, hd_direct, hd_writes>>
    /\ UNCHANGED hdOthers

(***************************************************************************)
(* src4/store: GlobalMarketData.  process_feed_message converts the feed   *)
(* message to a record and writes it to the L1 ring of the src3 manager;   *)
(* get_latest_tick reads that ring.  One call at a time.                   *)
(***************************************************************************)
\* Number of process_feed_message calls made in a run.
GmMaxMessages == 3
\* Largest sequence number a feed message carries; the smallest is 0.
GmMaxSeq == 1

\* The feed messages that pass FeedMessage::is_valid: token, last price and
\* sequence number are what the store looks at.
FeedMessages ==
    [token : ManagerTokens, last_price : {100, 101}, sequence_num : 0..GmMaxSeq]

\* convert_feed_message: MarketDataRecord::new with the fields of the message
ConvertFeedMessage(msg) ==
    [sequence_num |-> msg.sequence_num, last_price |-> msg.last_price]

\* src3 InstrumentBufferManager::write, run alone on the manager `m`
ManagerWrite(m, token, record, buffer_type) ==
    LET t32 == TryIntoU32(token)
    IN  IF t32 = None
        THEN [m EXCEPT !.panicked = TRUE, !.ret = FALSE]
        ELSE LET found == IndexGetBufferIndex(m.index, Unwrap(t32))
             IN  IF found # None /\ m.buffers[Unwrap(found)] # None
                 THEN LET idx == Unwrap(found)
                          w == InstrumentBufferWrite(Unwrap(m.buffers[idx]), record,
                                                     buffer_type)
                      IN  [m EXCEPT !.buffers[idx] = Some(w.set), !.ret = w.ret]
                 ELSE [m EXCEPT !.ret = FALSE]

\* src3 InstrumentBufferManager::read, run alone on the manager `m`
ManagerRead(m, token, buffer_type) ==
    LET t32 == TryIntoU32(token)
    IN  IF t32 = None
        THEN [m EXCEPT !.panicked = TRUE, !.ret = None]
        ELSE LET found == IndexGetBufferIndex(m.index, Unwrap(t32))
             IN  IF found # None /\ m.buffers[Unwrap(found)] # None
                 THEN LET idx == Unwrap(found)
                          r == InstrumentBufferRead(Unwrap(m.buffers[idx]), buffer_type)
                      IN  [m EXCEPT !.buffers[idx] = Some(r.set), !.ret = r.ret]
                 ELSE [m EXCEPT !.ret = None]

GmNoCall == [op |-> "none", token |-> U64(0, 0), ok |-> None, record |-> None]

\* GlobalMarketData::new: a manager with no instrument registered
GmNew(capacity) ==
    /\ gm_index = InstrumentIndexNew(capacity)
    /\ gm_buffers = [i \in 0..(capacity - 1) |-> None]
    /\ gm_stats = [total_messages |-> 0, total_updates |-> 0, buffer_full_count |-> 0]
    /\ gm_queue = <<>>
    /\ gm_last = GmNoCall
    /\ gm_processed = {}
    /\ gm_panicked = FALSE

\* GlobalMarketData::process_feed_message(msg)
GmProcessFeedMessage(msg) ==
    /\ ~gm_panicked
    /\ gm_stats.total_messages + gm_stats.buffer_full_count < GmMaxMessages
    /\ LET record == ConvertFeedMessage(msg)
           m == ManagerWrite([index |-> gm_index, buffers |-> gm_buffers,
                              panicked |-> FALSE, ret |-> FALSE],
                             msg.token, record, "L1Price")
           call == [GmNoCall EXCEPT !.op = "process", !.token = msg.token]
       IN  /\ gm_panicked' = m.panicked
           /\ gm_buffers' = m.buffers
           /\ gm_processed' = gm_processed \cup
                                 {[token |-> msg.token, last_price |-> msg.last_price]}
           /\ IF m.panicked
              THEN /\ gm_last' = call
                   /\ UNCHANGED <<gm_stats, gm_queue>>
              ELSE IF ~m.ret
              THEN /\ gm_stats' = [gm_stats EXCEPT !.buffer_full_count = @ + 1]
                   /\ gm_last' = [call EXCEPT !.ok = Some(FALSE)]
                   /\ UNCHANGED gm_queue
              ELSE /\ gm_queue' = Append(gm_queue, msg)
                   /\ gm_stats' = [gm_stats EXCEPT !.total_messages = @ + 1,
                                                   !.total_updates = @ + 1]
                   /\ gm_last' = [call EXCEPT !.ok = Some(TRUE)]
    /\ UNCHANGED gm_index
    /\ UNCHANGED gmOthers

\* GlobalMarketData::get_latest_tick(token), token a u32
GmGetLatestTick(token) ==
    /\ ~gm_panicked
    /\ LET m == ManagerRead([index |-> gm_index, buffers |-> gm_buffers,
                             panicked |-> FALSE, ret |-> None],
                            U64(0, token), "L1Price")
       IN  /\ gm_panicked' = m.panicked
           /\ gm_buffers' = m.buffers
           /\ gm_last' = [GmNoCall EXCEPT !.op = "get", !.token = U64(0, token),
                                          !.record = m.ret]
    /\ UNCHANGED <<gm_index, gm_stats, gm_queue, gm_processed>>
    /\ UNCHANGED gmOthers

(***************************************************************************)
(* src4/src/store: GlobalMarketData.  process_feed_message keeps the       *)
(* latest record of the token in a map and pushes the message on the       *)
(* background queue; start_background_processing spawns one task that pops *)
(* the queue and hands each message to the time-series store.  A message   *)
(* is its number in the feed and its token.                                *)
(***************************************************************************)
\* Number of process_feed_message calls made in a run.
BgMaxMessages == 3

BgTokens == 1..2

\* GlobalMarketData::new
BgNew ==
    /\ bg_latest = [t \in {} |-> 0]
    /\ bg_queue = <<>>
    /\ bg_stats = [total_messages |-> 0, total_updates |-> 0]
    /\ bg_task = "none"
    /\ bg_msg = None
    /\ bg_stored = {}
    /\ bg_next = 1

\* GlobalMarketData::process_feed_message(msg): the map insert, the
\* subscribers (none), the Redis publish (its error is logged), the push
BgProcessFeedMessage(token) ==
    /\ bg_next <= BgMaxMessages
    /\ LET msg == [id |-> bg_next, token |-> token]
       IN  /\ bg_latest' = MapInsert(bg_latest, token, msg.id)
           /\ bg_queue' = Append(bg_queue, msg)
    /\ bg_stats' = [bg_stats EXCEPT !.total_messages = @ + 1, !.total_updates = @ + 1]
    /\ bg_next' = bg_next + 1
    /\ UNCHANGED <<bg_task, bg_msg, bg_stored>>
    /\ UNCHANGED bgOthers

\* start_background_processing: tokio::spawn of the task
BgStart ==
    /\ bg_task = "none"
    /\ bg_task' = "pop"
    /\ UNCHANGED <<bg_latest, bg_queue, bg_stats, bg_msg, bg_stored, bg_next>>
    /\ UNCHANGED bgOthers

\* the task, `while let Some(msg) = queue.pop()`: SegQueue::pop does not wait,
\* on None the loop and the task end
BgPop ==
    /\ bg_task = "pop"
    /\ IF bg_queue = <<>>
       THEN /\ bg_task' = "ended"
            /\ UNCHANGED <<bg_queue, bg_msg>>
       ELSE /\ bg_task' = "store"
            /\ bg_msg' = Some(Head(bg_queue))
            /\ bg_queue' = Tail(bg_queue)
    /\ UNCHANGED <<bg_latest, bg_stats, bg_stored, bg_next>>
    /\ UNCHANGED bgOthers

\* the task, time_series.store_message(msg).await; an error is logged
BgStore ==
    /\ bg_task = "store"
    /\ bg_stored' = bg_stored \cup {Unwrap(bg_msg).id}
    /\ bg_msg' = None
    /\ bg_task' = "pop"
    /\ UNCHANGED <<bg_latest, bg_queue, bg_stats, bg_next>>
    /\ UNCHANGED bgOthers

BgTaskStep == BgPop \/ BgStore

\* basic/test.rs line 39: `let mut sequence = 0u64`, here from `first`
FtNew(first) ==
    /\ ft_first = first
    /\ ft_sequence = first

(***************************************************************************)
(* Specifications.                                                         *)
(***************************************************************************)
\* the components a specification does not run, as constructed
IbIdle == IbInit
ZaIdle == ZaNew(2)
ZbIdle == ZbNew(2, FALSE)
IiIdle == IiNew(DirCapacity)
MgIdle == MgNew(DirCapacity)
DbIdle == DbNew(DbCapacity, FALSE)
LyIdle == LyNew
EnIdle == EnNew(2, FALSE)
FtIdle == FtNew(0)
TbIdle == TbNew
MpIdle == MpNew(2)
HdIdle == HdNew(DirCapacity, FALSE)
GmIdle == GmNew(DirCapacity)
BgIdle == BgNew

\* One feed thread and one strategy thread on one buffer set (src3).
SetInit == IbInit /\ ZaIdle /\ ZbIdle /\ IiIdle /\ MgIdle /\ DbIdle /\ LyIdle /\ EnIdle /\ FtIdle /\ TbIdle /\ MpIdle /\ HdIdle /\ GmIdle /\ BgIdle
SetNext == IbProducerStep \/ IbConsumerStep
SetSpec == SetInit /\ [][SetNext]_vars

\* One producer, one consumer and a thread calling len() on one src5 ring.
Ring5Init == (\E capacity \in 2..MaxCapacity : ZaNew(capacity)) /\ IbIdle /\ ZbIdle /\ IiIdle /\ MgIdle /\ DbIdle /\ LyIdle /\ EnIdle /\ FtIdle /\ TbIdle /\ MpIdle /\ HdIdle /\ GmIdle /\ BgIdle
Ring5Next == ZaProducerStep \/ ZaConsumerStep \/ ZaObserverStep
Ring5Spec == Ring5Init /\ [][Ring5Next]_vars

\* The src5 ring as ZeroAllocRingBuffer::new builds it for any capacity it is
\* given, 0 included.
Ring5AnyInit ==
    (\E capacity \in 0..MaxCapacity : ZaNew(capacity)) /\ IbIdle /\ ZbIdle /\ IiIdle /\ MgIdle /\ DbIdle /\ LyIdle /\ EnIdle /\ FtIdle /\ TbIdle /\ MpIdle /\ HdIdle /\ GmIdle /\ BgIdle
Ring5AnyNext == ZaProducerStep \/ ZaConsumerStep \/ ZaObserverStep
Ring5AnySpec == Ring5AnyInit /\ [][Ring5AnyNext]_vars

\* One producer and one consumer on one src2 ring, with or without AVX2.
Ring2Init ==
    /\ \E capacity \in 2..MaxCapacity, avx2 \in BOOLEAN : ZbNew(capacity, avx2)
    /\ IbIdle /\ ZaIdle /\ IiIdle /\ MgIdle /\ DbIdle /\ LyIdle /\ EnIdle /\ FtIdle /\ TbIdle /\ MpIdle /\ HdIdle /\ GmIdle /\ BgIdle
Ring2Next == ZbProducerStep \/ ZbConsumerStep
Ring2Spec == Ring2Init /\ [][Ring2Next]_vars

\* Two threads registering and looking up tokens in one directory.
DirInit == IiNew(DirCapacity) /\ IbIdle /\ ZaIdle /\ ZbIdle /\ MgIdle /\ DbIdle /\ LyIdle /\ EnIdle /\ FtIdle /\ TbIdle /\ MpIdle /\ HdIdle /\ GmIdle /\ BgIdle
DirNext == IiRegisterStep \/ IiLookupStep
DirSpec == DirInit /\ [][DirNext]_vars

\* The steps a thread takes on its own once it is inside a call: the rest of a
\* ring write, the rest of a ring read, the scan of a directory lookup.
IbWriteOwnStep(p) ==
    IbRingCheck(p) \/ IbCopyQuote(p) \/ IbCopySeq(p) \/ IbPublish(p) \/ IbSetSeq(p)
IbReadOwnStep == IbReadCopyQuote \/ IbReadCopySeq \/ IbReadAdvance

(***************************************************************************)
(* src3 tests: test_instrument_buffer_system.  The producer of one         *)
(* instrument numbers its records from `sequence`, offers each to the L1   *)
(* ring and retries until the write returns true; the consumer of the      *)
(* instrument polls the L1 ring.  The write and the read are those of the  *)
(* buffer set above, step by step.                                         *)
(***************************************************************************)
\* basic/test.rs lines 47-65: build the record numbered `sequence` and call
\* manager.write; after a false, yield and call it again
FtOffer ==
    /\ ft_sequence <= MaxSeq
    /\ ib_prod["feed"].ret # Some(TRUE)
    /\ IbWriteGate("feed", MarketDataRecord(ft_sequence), "L1Price")

\* basic/test.rs lines 64-71: the write returned true, `sequence += 1`
FtNextRecord ==
    /\ ib_prod["feed"].pc = "idle"
    /\ ib_prod["feed"].ret = Some(TRUE)
    /\ ft_sequence' = ft_sequence + 1
    /\ ib_prod' = [ib_prod EXCEPT !["feed"].ret = None]
    /\ UNCHANGED <<ft_first, ib_config, ib_data, ib_write_pos, ib_read_pos,
                   ib_last_sequence, ib_cons, ib_written, ib_consumed, ib_full_rej>>
    /\ UNCHANGED <<zaVars, zbVars, iiVars, mgVars, dbVars, lyVars, enVars, tbVars,
                   mpVars, hdVars, gmVars, bgVars>>

FtProducerStep == FtOffer \/ IbWriteOwnStep("feed") \/ FtNextRecord

\* basic/test.rs lines 92-117: the consumer polls manager.read(token, L1Price)
FtConsumerStep == IbReadCheck("L1Price") \/ IbReadOwnStep

(***************************************************************************)
(* src2: main.rs, the producer/consumer example.  The producer's loop      *)
(* index i is the number of writes that have returned true, the consumer's *)
(* `count` the number of reads that have returned a record.                *)
(***************************************************************************)
\* main.rs line 19: `for i in 0..100_000`, here as many records as the ring
\* model lets its producer write
ExampleRecords == MaxWrites2

\* main.rs lines 20-31: the record the producer builds for i, prices in cents
ExampleRecord(i) ==
    [bid_price |-> (10000 + i) * 100, ask_price |-> (10000 + i) * 100 + 10,
     bid_size |-> 100, ask_size |-> 100, last_price |-> (10000 + i) * 100 + 5,
     sequence_num |-> i]

\* main.rs lines 19-35: offer record i; after a false, yield and offer it again
ExOffer ==
    /\ Len(zb_written) < ExampleRecords
    /\ ZbWriteCheck(ExampleRecord(Len(zb_written)))

ExProducerStep == ExOffer \/ ZbStream \/ ZbCopyFirst \/ ZbCopyBehind \/ ZbPublish

\* main.rs lines 47-63: poll db.read() while count < 100_000
ExPoll ==
    /\ Len(zb_consumed) < ExampleRecords
    /\ ZbReadCheck

ExConsumerStep == ExPoll \/ ZbReadAdvance \/ ZbDerefFirst \/ ZbDerefBehind

\* main.rs lines 67-68: both threads have left their loops and can be joined
ExFinished ==
    /\ Len(zb_written) = ExampleRecords /\ zb_prod.pc = "idle"
    /\ Len(zb_consumed) = ExampleRecords /\ zb_cons.pc = "idle"

\* The hot path, one component exercised per run (the rings and the directory
\* share no memory): either the feed and the consumer of a buffer set, or the
\* threads that register and look up in the directory.  Only a thread's own
\* steps inside a write, a read or a lookup scan are fair; a registration, or
\* the start of any call, may be delayed for ever.
WaitFreeInit == IbInit /\ IiNew(DirCapacity) /\ ZaIdle /\ ZbIdle /\ MgIdle /\ DbIdle /\ LyIdle /\ EnIdle /\ FtIdle /\ TbIdle /\ MpIdle /\ HdIdle /\ GmIdle /\ BgIdle
WaitFreeNext ==
    \/ IiIdle /\ IbProducerStep
    \/ IiIdle /\ IbConsumerStep
    \/ IbIdle /\ IiRegisterStep
    \/ IbIdle /\ IiLookupStep
WaitFreeSpec ==
    /\ WaitFreeInit
    /\ [][WaitFreeNext]_vars
    /\ \A p \in {"feed"} : WF_vars(IbWriteOwnStep(p))
    /\ WF_vars(IbReadOwnStep)
    /\ \A th \in Threads : WF_vars(IiLookScan(th))

\* One caller at a time on one manager: registrations, writes and reads.
MgrInit == MgNew(DirCapacity) /\ IbIdle /\ ZaIdle /\ ZbIdle /\ IiIdle /\ DbIdle /\ LyIdle /\ EnIdle /\ FtIdle /\ TbIdle /\ MpIdle /\ HdIdle /\ GmIdle /\ BgIdle
MgrNext ==
    \/ \E token \in ManagerTokens : MgRegisterInstrument(token)
    \/ \E token \in ManagerTokens, record \in ManagerRecords, buffer_type \in ManagerKinds :
           MgWrite(token, record, buffer_type)
    \/ \E token \in ManagerTokens, buffer_type \in ManagerKinds : MgRead(token, buffer_type)
MgrSpec == MgrInit /\ [][MgrNext]_vars

\* Writer and reader threads on one database, on a build with or without AVX2.
DbInit ==
    /\ \E avx2 \in BOOLEAN : DbNew(DbCapacity, avx2)
    /\ IbIdle /\ ZaIdle /\ ZbIdle /\ IiIdle /\ MgIdle /\ LyIdle /\ EnIdle /\ FtIdle /\ TbIdle /\ MpIdle /\ HdIdle /\ GmIdle /\ BgIdle
DbNext == DbWriterStep \/ DbReaderStep
DbSpec == DbInit /\ [][DbNext]_vars

\* The record structs laid out side by side, one field at a time.
LayoutInit ==
    /\ LyNew
    /\ IbIdle /\ ZaIdle /\ ZbIdle /\ IiIdle /\ MgIdle /\ DbIdle /\ EnIdle /\ FtIdle /\ TbIdle /\ MpIdle /\ HdIdle /\ GmIdle /\ BgIdle
LayoutNext == \E t \in Structs : LyPlaceField(t) \/ LyClose(t)
LayoutSpec == LayoutInit /\ [][LayoutNext]_vars

\* One caller on one engine database, for every configured capacity and on a
\* build with or without AVX2.
EngInit ==
    /\ \E capacity \in 0..EngMaxCapacity, avx2 \in BOOLEAN : EnNew(capacity, avx2)
    /\ IbIdle /\ ZaIdle /\ ZbIdle /\ IiIdle /\ MgIdle /\ DbIdle /\ LyIdle /\ FtIdle /\ TbIdle /\ MpIdle /\ HdIdle /\ GmIdle /\ BgIdle
EngNext ==
    \/ \E symbol_id \in Symbols, price \in EngPrices, now \in EngClock :
           DatabaseWrite(symbol_id, price, 1000, now)
    \/ \E symbol_id \in Symbols : DatabaseReadLatest(symbol_id)
EngSpec == EngInit /\ [][EngNext]_vars

\* The producer and the consumer of one instrument in the multi-instrument
\* test, each scheduled again and again; the producer numbers from 0, as the
\* test does, or from 1.
FeedInit ==
    /\ IbInit /\ (\E first \in 0..1 : FtNew(first))
    /\ ZaIdle /\ ZbIdle /\ IiIdle /\ MgIdle /\ DbIdle /\ LyIdle /\ EnIdle /\ TbIdle /\ MpIdle /\ HdIdle /\ GmIdle /\ BgIdle
FeedNext == FtProducerStep \/ FtConsumerStep
FeedSpec ==
    FeedInit /\ [][FeedNext]_vars /\ WF_vars(FtProducerStep) /\ WF_vars(FtConsumerStep)

\* The producer and the consumer of the src2 example on one ring of capacity
\* at least 2, each thread scheduled again and again.
ExampleInit ==
    /\ \E capacity \in 2..MaxCapacity, avx2 \in BOOLEAN : ZbNew(capacity, avx2)
    /\ IbIdle /\ ZaIdle /\ IiIdle /\ MgIdle /\ DbIdle /\ LyIdle /\ EnIdle /\ FtIdle /\ TbIdle /\ MpIdle /\ HdIdle /\ GmIdle /\ BgIdle
ExampleNext == ExProducerStep \/ ExConsumerStep
ExampleSpec ==
    ExampleInit /\ [][ExampleNext]_vars
        /\ WF_vars(ExProducerStep) /\ WF_vars(ExConsumerStep)

\* Writer threads and a reader thread on one table.
TableInit ==
    /\ TbNew
    /\ IbIdle /\ ZaIdle /\ ZbIdle /\ IiIdle /\ MgIdle /\ DbIdle /\ LyIdle /\ EnIdle /\ FtIdle /\ MpIdle /\ HdIdle /\ GmIdle /\ BgIdle
TableNext == TbWriterStep \/ TbReaderStep
TableSpec == TableInit /\ [][TableNext]_vars

\* LowLatencyMpmcRing of every capacity `new` accepts, with two producers and
\* two consumers
MpmcInit ==
    /\ \E capacity \in MpCapacities : MpNew(capacity)
    /\ IbIdle /\ ZaIdle /\ ZbIdle /\ IiIdle /\ MgIdle /\ DbIdle /\ LyIdle /\ EnIdle /\ FtIdle /\ TbIdle /\ HdIdle /\ GmIdle /\ BgIdle
MpmcNext == MpProducerStep \/ MpConsumerStep
MpmcSpec == MpmcInit /\ [][MpmcNext]_vars

\* One buffer set whose L1 ring and L2 ring are written by two threads: each
\* ring has one producer, the sequence gate and last_sequence are shared.
TwoFeeds ==
    [p \in {"l1feed", "l2feed"} |->
        IdleProducer(IF p = "l1feed" THEN {"L1Price"} ELSE {"L2Trade"})]

TwoFeedInit ==
    /\ ib_config = [k \in BufferType |->
                      CASE k = "L1Price" -> L1Size
                        [] k = "L2Trade" -> L2Size
                        [] OTHER -> RefSize]
    /\ ib_data = [k \in BufferType |-> [i \in 0..(ib_config[k] - 1) |-> UninitSlot]]
    /\ ib_write_pos = [k \in BufferType |-> 0]
    /\ ib_read_pos = [k \in BufferType |-> 0]
    /\ ib_last_sequence = 0
    /\ ib_prod = TwoFeeds
    /\ ib_cons = IdleConsumer
    /\ ib_written = <<>>
    /\ ib_consumed = [k \in BufferType |-> <<>>]
    /\ ib_full_rej = None
    /\ ZaIdle /\ ZbIdle /\ IiIdle /\ MgIdle /\ DbIdle /\ LyIdle /\ EnIdle /\ FtIdle /\ TbIdle /\ MpIdle /\ HdIdle /\ GmIdle /\ BgIdle
\* Largest sequence number the two feeds send.
TwoFeedMaxSeq == 2
TwoFeedRecords == {MarketDataRecord(s) : s \in 0..TwoFeedMaxSeq}
TwoFeedWrite ==
    \E p \in DOMAIN ib_prod :
        \/ \E record \in TwoFeedRecords, buffer_type \in BufferType :
               IbWriteGate(p, record, buffer_type)
        \/ IbWriteOwnStep(p)
TwoFeedNext == TwoFeedWrite \/ IbConsumerStep
TwoFeedSpec == TwoFeedInit /\ [][TwoFeedNext]_vars

\* The src2 manager and callers that also register on its directory handle.
HandleInit ==
    /\ \E avx2 \in BOOLEAN : HdNew(DirCapacity, avx2)
    /\ IbIdle /\ ZaIdle /\ ZbIdle /\ IiIdle /\ MgIdle /\ DbIdle /\ LyIdle /\ EnIdle /\ FtIdle /\ TbIdle /\ MpIdle /\ GmIdle /\ BgIdle
HandleNext ==
    \/ \E token \in Tokens : HdIndexRegister(token)
    \/ \E token \in Tokens : HdRegisterInstrument(token)
    \/ \E token \in Tokens, record \in HdRecords, buffer_type \in ManagerKinds :
           HdWrite(token, record, buffer_type)
    \/ \E token \in Tokens, buffer_type \in ManagerKinds : HdRead(token, buffer_type)
HandleSpec == HandleInit /\ [][HandleNext]_vars

\* The store as init() builds it, the ingestor handing it feed messages and a
\* caller asking for latest ticks.
StoreInit ==
    /\ GmNew(DirCapacity)
    /\ IbIdle /\ ZaIdle /\ ZbIdle /\ IiIdle /\ MgIdle /\ DbIdle /\ LyIdle /\ EnIdle /\ FtIdle /\ TbIdle /\ MpIdle /\ HdIdle /\ BgIdle
StoreNext ==
    \/ \E msg \in FeedMessages : GmProcessFeedMessage(msg)
    \/ \E token \in Tokens : GmGetLatestTick(token)
StoreSpec == StoreInit /\ [][StoreNext]_vars

\* The store, the ingestor and the background task; the runtime keeps running
\* the task while it has a step to take.
BackgroundInit ==
    /\ BgNew
    /\ IbIdle /\ ZaIdle /\ ZbIdle /\ IiIdle /\ MgIdle /\ DbIdle /\ LyIdle /\ EnIdle /\ FtIdle /\ TbIdle /\ MpIdle /\ HdIdle /\ GmIdle
BackgroundNext ==
    \/ \E token \in BgTokens : BgProcessFeedMessage(token)
    \/ BgStart
    \/ BgTaskStep
BackgroundSpec == BackgroundInit /\ [][BackgroundNext]_vars /\ WF_vars(BgTaskStep)

(***************************************************************************)
(* Properties of the buffer set (SetSpec).                                 *)
(***************************************************************************)
\* the records of ib_written that went to the ring of kind k, in order
WrittenTo(k) ==
    LET s == SelectSeq(ib_written, LAMBDA e : e[1] = k)
    IN  [i \in 1..Len(s) |-> s[i][2]]

\* the slots of ring k from read_pos up to write_pos, oldest first
InRing(k) ==
    LET n == (ib_write_pos[k] - ib_read_pos[k] + ib_config[k]) % ib_config[k]
    IN  [i \in 1..n |-> ib_data[k][(ib_read_pos[k] + i - 1) % ib_config[k]]]

\* C1: with one producer and one consumer on a ring, under any interleaving,
\* the records returned by successful reads are at every moment a prefix of
\* the records whose write returned true; in particular the number of
\* successful reads never exceeds the number of successful writes.
C1_ConsumedIsPrefixOfWritten ==
    \A k \in BufferType :
        /\ IsPrefix(ib_consumed[k], WrittenTo(k))
        /\ Len(ib_consumed[k]) <= Len(WrittenTo(k))

\* C1 witness: a record has been consumed from the L1 ring and the consumer is
\* in the middle of copying the next one while the producer is in the middle
\* of copying a further one into the same ring.
C1_Witness ==
    /\ Len(ib_consumed["L1Price"]) >= 1
    /\ ib_cons.pc = "copy_seq" /\ ib_cons.buffer_type = "L1Price"
    /\ ib_prod["feed"].pc = "copy_seq" /\ ib_prod["feed"].buffer_type = "L1Price"

\* C6: the accepted writes of one buffer set have strictly increasing sequence
\* numbers across the three kinds taken together, and a record on its way
\* into a ring has a sequence number greater than last_sequence.
C6_AcceptedStrictlyIncreasing ==
    /\ \A i, j \in 1..Len(ib_written) :
           i < j => ib_written[i][2].sequence_num < ib_written[j][2].sequence_num
    /\ \A p \in DOMAIN ib_prod :
           ib_prod[p].pc \in {"ring", "copy_quote", "copy_seq", "publish", "set_seq"}
               => ib_prod[p].record.sequence_num > ib_last_sequence

\* C6 witness: three writes have been accepted, on three different kinds.
C6_Witness ==
    /\ Len(ib_written) = 3
    /\ {ib_written[i][1] : i \in 1..3} = BufferType

\* C7: a write offered with a sequence number not greater than last_sequence
\* returns false and changes neither last_sequence nor any ring index or slot;
\* and at every moment the records read so far followed by the records still
\* in the ring are exactly the accepted ones in acceptance order.
C7_ReplayRejectedWithoutEffect ==
    /\ [][\A p \in DOMAIN ib_prod :
             (/\ ib_prod[p].pc = "idle"
              /\ ib_prod'[p] # ib_prod[p]
              /\ ib_prod'[p].record.sequence_num <= ib_last_sequence)
             => /\ ib_prod'[p].pc = "idle"
                /\ ib_prod'[p].ret = Some(FALSE)
                /\ UNCHANGED <<ib_last_sequence, ib_write_pos, ib_read_pos,
                               ib_data, ib_written>>]_vars
    /\ [](\A k \in BufferType : ib_consumed[k] \o InRing(k) = WrittenTo(k))

\* C7 witness: sequence 2 was accepted, sequence 1 has just been rejected.
C7_Witness ==
    /\ ib_prod["feed"].pc = "idle"
    /\ ib_prod["feed"].ret = Some(FALSE)
    /\ ib_prod["feed"].record.sequence_num = 1
    /\ ib_last_sequence = 2
    /\ Len(ib_written) = 1

\* C8: a write that finds its ring full returns false and leaves write index,
\* read index, every slot and last_sequence unchanged; and while that is the
\* last thing the producer's writes did, the rejected record still passes the
\* gate and, once the consumer has read one record from that ring, finds room.
C8_FullRejectedWithoutEffect ==
    /\ [][\A p \in DOMAIN ib_prod :
             (/\ ib_prod[p].pc = "ring"
              /\ ib_prod'[p] # ib_prod[p]
              /\ LET k == ib_prod[p].buffer_type
                 IN  (ib_write_pos[k] + 1) % ib_config[k] = ib_read_pos[k])
             => /\ ib_prod'[p].pc = "idle"
                /\ ib_prod'[p].ret = Some(FALSE)
                /\ UNCHANGED <<ib_last_sequence, ib_write_pos, ib_read_pos,
                               ib_data, ib_written>>]_vars
    /\ [](\A r \in ib_full_rej :
             LET k == r.buffer_type
             IN  /\ r.record.sequence_num > ib_last_sequence
                 /\ Len(ib_consumed[k]) > r.reads
                        => (ib_write_pos[k] + 1) % ib_config[k] # ib_read_pos[k])

\* C8 witness: the record that was rejected by the full L2 ring is being
\* copied into it on the retry, after the consumer has read one record.
C8_Witness ==
    \E r \in ib_full_rej :
        /\ r.buffer_type = "L2Trade"
        /\ ib_prod["feed"].pc = "copy_quote"
        /\ ib_prod["feed"].record = r.record
        /\ ib_prod["feed"].buffer_type = r.buffer_type
        /\ Len(ib_consumed[r.buffer_type]) > r.reads

(***************************************************************************)
(* Properties of the sequence-gated ring (Ring5Spec).                      *)
(***************************************************************************)
\* only valid records with strictly increasing sequence numbers have been
\* offered to the fresh ring, and no read has been attempted
CleanRun == za_run.clean /\ ~za_run.reads

\* C2: valid records with strictly increasing sequence numbers written into a
\* fresh ring are all accepted as long as their number does not exceed the
\* capacity (a write of such a run fails only when capacity records are
\* already in the ring), and the reads return the written records in write
\* order, equal in every field.
C2_CapacityWritesAllSucceed ==
    /\ (CleanRun /\ za_prod.pc = "idle" /\ za_prod.ret = Some(FALSE))
           => Len(za_written) >= za_capacity
    /\ IsPrefix(za_consumed, za_written)

\* C3: the first write that a fresh ring of capacity C rejects as full, when
\* no read intervenes, is the one that follows C accepted writes.
C3_FullAfterCapacityWrites ==
    \A r \in za_full_rej : CleanRun => r.held = za_capacity

\* C9: len(), whatever the producer and the consumer do between its two loads,
\* is between 0 and capacity, and so is the length of the ring in every state;
\* a write that makes its full check in a state where is_full() holds returns
\* false; a read that makes its empty check in a state where is_empty() holds
\* returns None.
C9_LenAndFullEmpty ==
    /\ [](za_obs.len \in 0..za_capacity)
    /\ [](ZaLen(za_write_pos, za_read_pos, za_capacity) \in 0..za_capacity)
    /\ [][(/\ za_prod.pc = "ring"
           /\ za_prod' # za_prod
           /\ ZaIsFull(za_write_pos, za_read_pos, za_capacity))
          => (za_prod'.pc = "idle" /\ za_prod'.ret = Some(FALSE))]_vars
    /\ [][(/\ za_cons.pc = "idle"
           /\ za_cons' # za_cons
           /\ ZaIsEmpty(za_read_pos, za_write_pos))
          => (za_cons'.pc = "idle" /\ za_cons'.ret = None)]_vars

\* C9 witness: the indices have wrapped (write_pos is behind read_pos), len()
\* has returned a positive length, and a write has just been rejected by the
\* full ring.
C9_Witness ==
    /\ za_write_pos < za_read_pos
    /\ za_obs.pc = "idle" /\ za_obs.len > 0
    /\ za_prod.pc = "idle" /\ za_prod.ret = Some(FALSE)
    /\ za_full_rej # None

(***************************************************************************)
(* Properties of the streaming-store ring (Ring2Spec).                     *)
(***************************************************************************)
\* C4: with one producer and one consumer, every record handed to the consumer
\* by InstrumentBuffer::read is, in every field, a record whose write
\* returned true.
C4_ConsumedWereWrittenWhole ==
    \A i \in 1..Len(zb_consumed) :
        \E j \in 1..Len(zb_written) : zb_consumed[i] = zb_written[j]

\* C5: when write is about to advance write_idx, and after it has returned
\* true, the slot it wrote holds the record in every field, on the streaming
\* branch as on the plain-copy branch.
C5_NoPartialWrite ==
    (zb_prod.pc = "publish" \/ (zb_prod.pc = "idle" /\ zb_prod.ret = Some(TRUE)))
        => zb_buffer[zb_prod.idx] = zb_prod.record

(***************************************************************************)
(* Properties of the instrument directory (DirSpec).                       *)
(***************************************************************************)
\* C10: every registration of a token that returns a slot returns the slot
\* its first registration returned, whatever registrations of other tokens
\* came in between, and every lookup of the token begun after its first
\* registration returned gives that slot.
C10_RegistrationIdempotent ==
    \A th \in Threads :
        LET t == ii_thread[th]
        IN  /\ (t.pc = "idle" /\ t.op = "register" /\ t.token \in DOMAIN ii_assigned)
                   => t.ret = Some(ii_assigned[t.token])
            /\ (t.pc = "idle" /\ t.op = "lookup" /\ t.known)
                   => t.ret = Some(ii_assigned[t.token])

\* C10 witness: token 0 (the value the index array starts with) sits in slot
\* 1 behind another token; one thread has registered it again and got slot 1
\* from the map, the other has looked it up and got slot 1.
C10_Witness ==
    /\ 0 \in DOMAIN ii_assigned /\ ii_assigned[0] = 1
    /\ ii_thread["t1"].pc = "idle" /\ ii_thread["t1"].op = "register"
    /\ ii_thread["t1"].token = 0 /\ ii_thread["t1"].ret = Some(1)
    /\ ii_thread["t1"].count = 0
    /\ ii_thread["t2"].pc = "idle" /\ ii_thread["t2"].op = "lookup"
    /\ ii_thread["t2"].token = 0 /\ ii_thread["t2"].known
    /\ ii_thread["t2"].ret = Some(1)

\* C11: slots are handed out densely in first-registration order and never
\* change: the slots of the registered tokens are 0 .. n-1 for n registered
\* tokens, each recorded in the map and in the array; count equals the number
\* of distinct tokens registered whenever no registration is in progress,
\* never exceeds the capacity and never decreases; and no slot of a
\* registered token is ever given to another token.
C11_SlotsDenseAndStable ==
    /\ [](/\ ii_count <= ii_capacity
          /\ ii_lock = None =>
                 /\ ii_count = Cardinality(DOMAIN ii_token_map)
                 /\ ii_count = Cardinality(DOMAIN ii_assigned)
          /\ {ii_assigned[t] : t \in DOMAIN ii_assigned}
                 = 0..(Cardinality(DOMAIN ii_assigned) - 1)
          /\ \A t \in DOMAIN ii_assigned :
                 /\ ii_assigned[t] < ii_count
                 /\ t \in DOMAIN ii_token_map /\ ii_token_map[t] = ii_assigned[t]
                 /\ ii_index[ii_assigned[t]] = t)
    /\ [][/\ ii_count' >= ii_count
          /\ \A t \in DOMAIN ii_assigned :
                 /\ t \in DOMAIN ii_assigned' /\ ii_assigned'[t] = ii_assigned[t]
                 /\ ii_index'[ii_assigned[t]] = t]_vars

\* C11 witness: the directory is full with two tokens in slots 0 and 1, and a
\* registration of a third token has returned None.
C11_Witness ==
    /\ Cardinality(DOMAIN ii_assigned) = 2 /\ ii_count = 2 /\ ii_lock = None
    /\ \E th \in Threads :
           /\ ii_thread[th].pc = "idle" /\ ii_thread[th].op = "register"
           /\ ii_thread[th].ret = None


\* The directory of the manager has never been asked to register this token.
NeverRegistered(token) ==
    \/ TryIntoU32(token) = None
    \/ Unwrap(TryIntoU32(token)) \notin DOMAIN mg_index.token_map

\* The set of slots of the manager that hold a buffer set.
FilledSlots == {i \in DOMAIN mg_buffers : mg_buffers[i] # None}

\* C12: a manager write for a token that was never registered returns false and
\* a read returns None, and neither changes the directory, any buffer set, any
\* ring or any last_sequence (nor ends the process).
C12_UnregisteredTokenRejected ==
    [][(mg_last'.op \in {"write", "read"} /\ NeverRegistered(mg_last'.token))
          => /\ ~mg_panicked'
             /\ mg_last'.op = "write" => mg_last'.written = Some(FALSE)
             /\ mg_last'.op = "read" => mg_last'.record = None
             /\ mg_index' = mg_index
             /\ mg_buffers' = mg_buffers]_vars

\* C13: after any sequence of manager operations, slot i holds a buffer set
\* exactly when i is below the directory's count.
C13_BufferSetIffBelowCount ==
    \A i \in DOMAIN mg_buffers : (mg_buffers[i] # None) <=> (i < mg_index.count)

\* One instrument registered and used (written, then read), one slot still free.
C13_Witness ==
    /\ mg_index.count = 1
    /\ FilledSlots = {0}
    /\ mg_last.op = "read"
    /\ mg_last.record # None

\* C14: registration through the manager is idempotent: there is exactly one
\* buffer set per registered instrument, and registering a registered token
\* again returns that same set without replacing it, so its rings, their
\* records and its last_sequence are as they were.
C14_ManagerRegistrationIdempotent ==
    /\ [](/\ mg_created = mg_index.count
          /\ \A i \in FilledSlots :
                /\ TryIntoU32(Unwrap(mg_buffers[i]).token) = Some(mg_index.index[i])
                /\ \A j \in FilledSlots :
                      Unwrap(mg_buffers[i]).id = Unwrap(mg_buffers[j]).id => i = j)
    /\ [][(mg_last'.op = "register" /\ ~NeverRegistered(mg_last'.token))
            => LET idx == mg_index.token_map[Unwrap(TryIntoU32(mg_last'.token))]
               IN  /\ mg_last'.handle = Some(Unwrap(mg_buffers[idx]).id)
                   /\ mg_buffers' = mg_buffers
                   /\ mg_index' = mg_index
                   /\ mg_created' = mg_created]_vars

\* A registered instrument that has accepted a record and still holds it is
\* registered again, and the call returns the one set that exists.
C14_Witness ==
    /\ mg_last.op = "register"
    /\ mg_last.handle = Some(0)
    /\ mg_created = 1
    /\ mg_buffers[0] # None
    /\ Unwrap(mg_buffers[0]).last_sequence > 0
    /\ \E k \in ManagerKinds : ~RingEmpty(Unwrap(mg_buffers[0]).rings[k].write_pos,
                                           Unwrap(mg_buffers[0]).rings[k].read_pos)

\* C15: once the directory holds as many tokens as its capacity, registering a
\* further new token returns None and changes nothing, while registering a
\* token that is already registered still returns its buffer set.
C15_FullDirectoryRejectsNewToken ==
    [][(mg_last'.op = "register" /\ mg_index.count = mg_index.capacity)
          => IF NeverRegistered(mg_last'.token)
             THEN /\ ~mg_panicked'
                  /\ mg_last'.handle = None
                  /\ mg_index' = mg_index
                  /\ mg_buffers' = mg_buffers
                  /\ mg_created' = mg_created
             ELSE mg_last'.handle # None]_vars

\* C16: no manager operation ends the process: register_instrument, write and
\* read accept every u64 token, also one above 2^32 - 1, without panicking.
C16_NoManagerCallPanics == ~mg_panicked


\* C17: constructing a ring with capacity 0 fails, so there is no ring of
\* capacity 0 on which a write, a read or is_full could divide by zero.
C17_NoRingOfCapacityZero == za_capacity # 0 /\ za_prod.pc # "panicked"


\* Number of own steps a ring write or read still has to take from a position.
StepsLeft(pc) ==
    CASE pc = "ring" -> 5
      [] pc = "copy_quote" -> 4
      [] pc = "copy_seq" -> 3
      [] pc = "publish" -> 2
      [] pc = "advance" -> 2
      [] pc = "set_seq" -> 1
      [] OTHER -> 0

\* A lookup of a token whose registration had returned before the lookup began.
KnownLookup(th) ==
    /\ ii_thread[th].op = "lookup"
    /\ ii_thread[th].pc # "idle"
    /\ ii_thread[th].known

\* C18: every ring write and read, and every lookup for a token whose
\* registration has completed, finishes in a bounded number of the thread's own
\* steps whatever the other threads do: its next step is always possible, each
\* step brings it nearer to the end, and the lookup stays on the scan of the
\* array and never waits for the directory lock, also while another thread is in
\* the middle of a registration.
C18_HotPathWaitFree ==
    /\ [](\A p \in DOMAIN ib_prod :
             ib_prod[p].pc # "idle" => ENABLED IbWriteOwnStep(p))
    /\ [](ib_cons.pc # "idle" => ENABLED IbReadOwnStep)
    /\ [](\A th \in Threads :
             KnownLookup(th) => /\ ii_thread[th].pc = "scan"
                                /\ ii_thread[th].i < ii_thread[th].count
                                /\ ii_thread[th].count <= ii_capacity
                                /\ ENABLED IiLookScan(th))
    /\ [][/\ \A p \in DOMAIN ib_prod :
               (ib_prod[p].pc # "idle" /\ ib_prod'[p] # ib_prod[p])
                  => StepsLeft(ib_prod'[p].pc) < StepsLeft(ib_prod[p].pc)
          /\ (ib_cons.pc # "idle" /\ ib_cons' # ib_cons)
                  => StepsLeft(ib_cons'.pc) < StepsLeft(ib_cons.pc)
          /\ \A th \in Threads :
               (KnownLookup(th) /\ ii_thread'[th] # ii_thread[th])
                  => \/ ii_thread'[th].pc = "idle" /\ ii_thread'[th].ret # None
                     \/ ii_thread'[th].i = ii_thread[th].i + 1]_vars
    /\ \A p \in {"feed"} : (ib_prod[p].pc # "idle") ~> (ib_prod[p].pc = "idle")
    /\ (ib_cons.pc # "idle") ~> (ib_cons.pc = "idle")
    /\ \A th \in Threads : KnownLookup(th) ~> (ii_thread[th].pc = "idle")

\* A thread scans for a token that is registered while another thread holds
\* the directory's write lock in the middle of a registration.
C18_Witness ==
    \E th \in Threads, other \in Threads :
        /\ other # th
        /\ KnownLookup(th)
        /\ ii_thread[th].pc = "scan"
        /\ ii_lock = Some(other)
        /\ ii_thread[other].op = "register"


\* C19: the buffer set of the src2 manager applies the sequence gate: a write
\* whose sequence_num is not strictly greater than that of the last record
\* accepted is rejected and stores nothing, so the records accepted by a ring
\* of the set carry strictly increasing sequence numbers.
C19_Src2AcceptedStrictlyIncreasing ==
    \A i \in 1..Len(zb_written), j \in 1..Len(zb_written) :
        i < j => zb_written[i].sequence_num < zb_written[j].sequence_num


\* Number of positions of a sequence that hold a given record.
Occurrences(seq, record) == Cardinality({i \in 1..Len(seq) : seq[i] = record})

\* No call is in progress and the ring is empty.
DbQuiescent ==
    /\ \A w \in Writers : db_writer[w].pc = "idle"
    /\ \A r \in Readers : db_reader[r].pc = "idle"
    /\ db_read_idx = db_write_idx

\* C20: with several threads writing and several threads reading one database,
\* a read returns only a record some writer wrote, whole, no record is returned
\* by two reads, and once the ring has been read empty every record whose write
\* returned true has been returned by exactly one read.
C20_EveryWrittenRecordReadOnce ==
    /\ \A i \in 1..Len(db_returned) :
          /\ \E w \in Writers : db_returned[i] = DbRecordOf(w)
          /\ Occurrences(db_returned, db_returned[i]) = 1
    /\ DbQuiescent =>
          \A i \in 1..Len(db_written) : Occurrences(db_returned, db_written[i]) = 1


\* C21: Database::read_latest(symbol) returns the most recently written record
\* of the symbol: once a write to the symbol has returned true, with or without
\* earlier reads, the record returned is the one stored by the last such write.
C21_ReadLatestReturnsLastWritten ==
    (en_last.op = "read_latest" /\ en_latest[en_last.symbol_id] # None)
        => en_last.record = en_latest[en_last.symbol_id]

\* C22: every record struct stored in a ring occupies exactly 64 bytes: laying
\* out the declared fields of Record and of MarketDataRecord in declaration
\* order, each at its alignment, and rounding up to the 64-byte alignment
\* gives size 64.
C22_RecordsOccupy64Bytes ==
    \A t \in Structs : ly_size[t] # None => ly_size[t] = Some(64)

\* The slots of the ring of a symbol, once the ring exists.
EnCapacityOf(symbol_id) == Unwrap(en_buffers[symbol_id]).capacity_mask + 1

ZaReturnedTrue ==
    IF za_prod.pc = "set_seq" THEN SubSeq(za_written, 1, Len(za_written) - 1) ELSE za_written

\* What one step of the src5 ring does to last_sequence: the step that completes
\* an accepted write stores the record's sequence number, a new value, and no
\* other step changes it: not a read, not a write that returns false; a record
\* whose sequence number is not above last_sequence is turned away at the gate.
LastSequenceStep ==
    /\ (za_prod.pc = "set_seq" /\ za_prod'.pc = "idle")
           => (/\ za_prod'.ret = Some(TRUE)
               /\ za_last_sequence' = za_prod.record.sequence_num
               /\ za_last_sequence' # za_last_sequence)
    /\ (za_last_sequence' # za_last_sequence)
           => (za_prod.pc = "set_seq" /\ za_prod'.ret = Some(TRUE))
    /\ (za_prod'.ret = Some(FALSE)) => (za_last_sequence' = za_last_sequence)
    /\ (za_cons' # za_cons) => (za_last_sequence' = za_last_sequence)
    /\ \A record \in Records5 :
           (ZaWriteGate(record) /\ record.sequence_num <= za_last_sequence)
               => (za_prod'.ret = Some(FALSE) /\ za_written' = za_written)

\* C24: last_sequence always equals the sequence_num of the most recently
\* accepted write (0 before any); the step that completes an accepted write
\* changes it, and no other step does: not a read, not a write rejected as
\* out-of-sequence, full or invalid; and whatever has been drained, a record
\* whose sequence number is not above last_sequence is turned away, so the
\* accepted sequence numbers strictly increase.
C24_LastSequenceTracksAcceptedWrites ==
    /\ [](za_last_sequence = IF ZaReturnedTrue = <<>> THEN 0
                              ELSE ZaReturnedTrue[Len(ZaReturnedTrue)].sequence_num)
    /\ [](\A i, j \in 1..Len(za_written) :
              i < j => za_written[i].sequence_num < za_written[j].sequence_num)
    /\ [][LastSequenceStep]_vars

\* C24 witness: the ring has been drained of two accepted records and a record
\* carrying the sequence number of the first has just been turned away, with
\* last_sequence still that of the second.
C24_Witness ==
    /\ Len(za_written) = 2
    /\ za_consumed = za_written
    /\ za_read_pos = za_write_pos
    /\ za_prod.pc = "idle"
    /\ za_prod.ret = Some(FALSE)
    /\ Validate5(za_prod.record)
    /\ za_prod.record.sequence_num = za_written[1].sequence_num
    /\ za_last_sequence = za_written[2].sequence_num

\* C25: in every reachable state of a ring of capacity C, also after the
\* indices have passed the end of the slot array, the write index is at least
\* the read index and exceeds it by at most C, and neither index ever decreases.
C25_IndicesOrderedAndIncreasing ==
    /\ [](za_write_pos >= za_read_pos /\ za_write_pos - za_read_pos <= za_capacity)
    /\ [][za_write_pos' >= za_write_pos /\ za_read_pos' >= za_read_pos]_vars

\* C26: in every reachable state of the directory, the states inside a
\* registration included, for every slot i below count and every token t the
\* array holds t at slot i if and only if the map sends t to i.
C26_ArrayAndMapAgreeBelowCount ==
    \A i \in 0..(ii_count - 1), t \in Tokens :
        (ii_index[i] = t) <=> (t \in DOMAIN ii_token_map /\ ii_token_map[t] = i)

\* C26 witness: inside the second registration, after the map has received the
\* token and before the array and count have.
C26_Witness ==
    /\ ii_count = 1
    /\ \E th \in Threads :
           /\ ii_thread[th].pc = "reg_store"
           /\ ii_thread[th].token \in DOMAIN ii_token_map
           /\ ii_token_map[ii_thread[th].token] = 1
           /\ ii_index[1] # ii_thread[th].token

\* C27: a lookup that runs while other tokens are being registered never
\* returns a wrong slot: what it returns for token t is the slot the directory
\* gave to t; for a token whose registration had returned before the lookup
\* began it returns that slot; and it returns None only for a token whose
\* registration had not returned.
C27_LookupNeverReturnsWrongSlot ==
    \A th \in Threads :
        LET t == ii_thread[th]
        IN  (t.pc = "idle" /\ t.op = "lookup")
            => /\ \A i \in t.ret :
                      t.token \in DOMAIN ii_token_map /\ ii_token_map[t.token] = i
               /\ t.known => t.ret = Some(ii_assigned[t.token])
               /\ t.ret = None => ~t.known

\* The positions of a ring that hold a record written and not yet read
HeldPositions(ring) ==
    {p \in 0..(ring.capacity - 1) :
        ((p - ring.read_pos) % ring.capacity)
            < ((ring.write_pos - ring.read_pos) % ring.capacity)}

\* C28: a write of kind K for token T places the record only in T's ring of
\* kind K: every record a ring holds was written to that token and that kind,
\* a read returns only a record written for the token and the kind it asks
\* for, and a ring that no write was addressed to is as its constructor left
\* it, whatever has been written to the other rings.
C28_WriteReachesOnlyItsRing ==
    /\ \A idx \in DOMAIN mg_buffers : \A set \in mg_buffers[idx] : \A k \in BufferType :
           LET token == Unwrap(TryIntoU32(set.token))
               ring == set.rings[k]
           IN  /\ \A p \in HeldPositions(ring) :
                      Placed(token, k, ring.data[p]) \in mg_placed
               /\ (\A w \in mg_placed : ~(w.token = token /\ w.buffer_type = k))
                      => ring = RingBufferNew(ManagerConfig[k])
    /\ (mg_last.op = "read" /\ mg_last.record # None)
           => Placed(Unwrap(TryIntoU32(mg_last.token)), mg_last.buffer_type,
                     Unwrap(mg_last.record)) \in mg_placed

\* C28 witness: two instruments are registered, two records have been written
\* to the L1 ring of token 1 and nothing else, and a read of token 1's L2 ring
\* has just found it empty.
C28_Witness ==
    /\ mg_created = 2
    /\ Cardinality(mg_placed) = 2
    /\ \A w \in mg_placed : w.token = 1 /\ w.buffer_type = "L1Price"
    /\ mg_last.op = "read"
    /\ mg_last.token = U64(0, 1)
    /\ mg_last.buffer_type = "L2Trade"
    /\ mg_last.record = None

\* C29: when the validity predicate of the record returns false, write returns
\* false, the invalid-record counter goes up by one, and the slots, both
\* indices and last_sequence are as before.
C29_InvalidRecordCounted ==
    [][(/\ za_prod.pc = "ring"
        /\ za_prod'.pc = "idle"
        /\ (za_write_pos + 1) % za_capacity # za_read_pos
        /\ ~Validate5(za_prod.record))
          => /\ za_prod'.ret = Some(FALSE)
             /\ za_stats'.invalid_records = za_stats.invalid_records + 1
             /\ UNCHANGED <<za_data, za_write_pos, za_read_pos, za_last_sequence>>]_vars

\* The records of ib_written that carry sequence number s
AcceptedWithSequence(s) ==
    {i \in 1..Len(ib_written) : ib_written[i][2].sequence_num = s}

\* C31: the producer of the multi-instrument test numbers its records from 0
\* and retries every write until it is accepted; with the consumer reading,
\* every retry loop ends: each record from the first one on is eventually
\* accepted, and the number of accepted writes becomes greater than 0.
C31_EveryOfferedRecordAccepted ==
    /\ \A s \in 0..MaxSeq :
           []((ft_first = 0 /\ ft_sequence = s) => <>(AcceptedWithSequence(s) # {}))
    /\ <>(ft_first = 0 => Len(ib_written) > 0)

\* C32: with one producer that retries each rejected write and one consumer
\* that keeps polling, on a ring of capacity at least 2 and under fair
\* scheduling, every record the producer offers is eventually written and
\* eventually read, in the order offered, and both threads terminate.
C32_ExampleMovesEveryRecord ==
    /\ \A i \in 0..(ExampleRecords - 1) :
           /\ <>(Len(zb_written) > i)
           /\ <>(Len(zb_consumed) > i)
    /\ [](\A i \in 1..Len(zb_written) : zb_written[i] = ExampleRecord(i - 1))
    /\ [](Len(zb_consumed) <= Len(zb_written))
    /\ <>[]ExFinished

\* C32 witness: on a ring of capacity 2, which holds one record at a time, so
\* that the producer could go on only as the consumer read, both threads have
\* finished with every record written and read.
C32_Witness ==
    /\ zb_capacity = 2
    /\ ExFinished

\* C33: write_record_ref is all-or-nothing, also with several threads writing:
\* a call that has returned true has enqueued every field of its record, and
\* a call that has returned false has enqueued none.
C33_WriteRecordAllOrNothing ==
    \A w \in TbWriters :
        LET t == tb_writer[w]
        IN  /\ (t.pc = "idle" /\ t.ret = Some(TRUE)) => t.enqueued = TbFields
            /\ (t.pc = "idle" /\ t.ret = Some(FALSE)) => t.enqueued = {}

\* C38: a record read from a table is never a mix of two writes: the field
\* values one read_record_ref call returns together all come from the same
\* write_record_ref call.
C38_ReadRecordFromOneWrite ==
    \A r \in TbReaders : \A out \in tb_reader[r].ret :
        \A f, g \in TbFields : out[f] = out[g]

\* the items enqueued with true and not yet handed to a try_dequeue
MpHeld == {i \in mp_accepted : mp_returned[i] = 0}

\* C37: in LowLatencyMpmcRing with several producers and consumers, no item
\* is handed out by more than one try_dequeue, no slot is written over before
\* its item has been taken, and the ring never holds more items than its
\* capacity.
C37_MpmcNoLossNoDuplicate ==
    /\ \A i \in MpItems : mp_returned[i] <= 1
    /\ mp_overwritten = {}
    /\ Cardinality(MpHeld) <= mp_capacity

\* the sequence numbers of the accepted ring writes, in the order of acceptance
AcceptedSequences == [i \in 1..Len(ib_written) |-> ib_written[i][2].sequence_num]

StrictlyIncreasing(seq) == \A i, j \in 1..Len(seq) : i < j => seq[i] < seq[j]

TwoFeedStep ==
    /\ ib_last_sequence' >= ib_last_sequence
    /\ StrictlyIncreasing(AcceptedSequences')

\* C35: with the L1 ring and the L2 ring of one buffer set written by two
\* threads, last_sequence never decreases, and the accepted writes of the set
\* carry strictly increasing sequence numbers, whatever the interleaving of
\* the gate check, the ring write and the store of last_sequence.
C35_SharedGateKeepsOrder == [][TwoFeedStep]_vars

\* the token has a slot in the directory and the manager has no buffer set there
DirectOnly(token) ==
    /\ token \in DOMAIN hd_index.token_map
    /\ hd_buffers[hd_index.token_map[token]] = None

\* a manager call on a token that so far was registered on the handle only
HandleStep ==
    \A token \in Tokens :
        (DirectOnly(token) /\ hd_last'.token = token) =>
            /\ ~hd_panicked'
            /\ (hd_last'.op = "write" => hd_last'.written = Some(FALSE))
            /\ (hd_last'.op = "read" => hd_last'.record = None)
            /\ (hd_last'.op = "register" =>
                   /\ hd_index'.token_map[token] = hd_index.token_map[token]
                   /\ hd_last'.handle = Some(hd_index.token_map[token])
                   /\ hd_buffers'[hd_index.token_map[token]] # None
                   /\ \A set \in hd_buffers'[hd_index.token_map[token]] :
                          set.token = token)

\* C36: for a token registered on the directory handle and not through the
\* manager, manager write returns false and manager read returns None without
\* a panic, and a later manager register_instrument creates its buffer set at
\* the slot the directory had assigned.
C36_DirectRegistrationTolerated == [][HandleStep]_vars

\* a token first registered on the handle now has its buffer set, created by
\* the manager's register_instrument at the directory's slot
C36_Witness ==
    /\ hd_last.op = "register"
    /\ hd_last.token \in hd_direct
    /\ hd_last.handle # None
    /\ hd_buffers[hd_index.token_map[hd_last.token]] # None

\* the last prices of the feed messages processed for the token
ProcessedPrices(token) == {m.last_price : m \in {x \in gm_processed : x.token = token}}

\* C34: after the ingestor has processed a valid feed message for a token,
\* get_latest_tick of that token returns a record that carries the prices of
\* a message processed for it, whatever the token and the sequence number.
C34_LatestTickAfterProcess ==
    (gm_last.op = "get" /\ ProcessedPrices(gm_last.token) # {}) =>
        /\ gm_last.record # None
        /\ \A record \in gm_last.record :
               record.last_price \in ProcessedPrices(gm_last.token)

\* the numbers of the messages waiting on the background queue
BgQueued == {bg_queue[i].id : i \in 1..Len(bg_queue)}

\* C39: once start_background_processing has been called, every feed message
\* on the background queue is eventually handed to the time-series store.
C39_QueuedMessageEventuallyStored ==
    \A id \in 1..BgMaxMessages :
        (bg_task # "none" /\ id \in BgQueued) ~> (id \in bg_stored)
====
